---- MODULE Spec2Model ----
(***************************************************************************)
(* Model of the resume optimizer: the section segmenter (utils.py), the   *)
(* scoring engine (resume_analyzer.py), the lazily loaded embedding model *)
(* (get_model) and the Streamlit session of app.py.                        *)
(*                                                                         *)
(* A text is a non-empty sequence of lines (the Python string is the       *)
(* lines joined by "\n"; the empty string is <<"">>).  Lines are drawn     *)
(* from a fixed vocabulary of concrete strings; what the code's regular    *)
(* expressions and substring tests say about each line is tabulated, and   *)
(* everything that spans lines (offsets, matches, bodies, sections) is     *)
(* computed as the code computes it.  No line of the vocabulary has        *)
(* leading or trailing blanks, "\r", "|", "-" or "_".                      *)
(***************************************************************************)
EXTENDS Integers, Sequences, FiniteSets, TLC

NONE == "None"
BLANK == ""

Min(a, b) == IF a < b THEN a ELSE b
Max(a, b) == IF a > b THEN a ELSE b

(***************************************************************************)
(* Bounds of the model                                                     *)
(***************************************************************************)
MaxParseLines == 4      \* lines of a text handed to the segmenter alone
MaxLines == 3           \* lines of a resume handed to analyze_resume
MaxCalls == 2           \* calls of analyze_resume on the same input
MaxRepeatLines == 2     \* lines of a resume that is analysed more than once
MaxBullets == 4         \* bullets of a resume that is a list of bullets
MaxBodyLines == 2       \* lines under one header of a two-block document
NumRows == 4            \* rows of a two-column resume
MaxGetModelCalls == 2   \* get_model calls per thread
NumThreads == 2         \* threads calling get_model
MaxAnalyses == 11        \* cap of analysis_count in the session model
NumProviders == 3       \* embedding providers told apart
MaxCosine == 105        \* largest cosine, in hundredths, a provider answers

(***************************************************************************)
(* The vocabulary of lines                                                 *)
(***************************************************************************)
ParseLines ==
    { "", "SKILLS", "Skills", "Experience", "Jazz", "Python, SQL, Docker",
      "Worked on a dashboard for the team",
      "Education: BSc", "Python     Docker" }

AnalyzeLines ==
    { "", "SKILLS", "Experience", "Python, SQL, Docker",
      "Worked on a dashboard for the team",
      "Improved dashboard load time by 40%" }

\* the bullets of a resume, one per line
BulletLines ==
    { "Worked on a dashboard for the team",
      "Helped the team with data entry tasks",
      "Handled customer requests by phone daily",
      "Participated in the weekly planning meetings",
      "Worked on a real-time dashboard for the team",
      "Improved dashboard load time by 40%" }

\* lines that only arise inside the program
DerivedLines ==
    { "Python", "Docker", "BSc", "Python Docker", "No resume text provided",
      "Worked on a real", "time dashboard for the team" }

\* the lines of a document of two headed blocks: what a header line can be
\* and what a body line can be
DocHeaders == { "SKILLS", "EXPERIENCE", "Jazz" }
DocBodyLines ==
    { "Python, SQL, Docker", "Worked on a dashboard for the team", "Jazz" }

\* what the left and the right column of a two-column resume can hold on a row
LeftCells == { "Jazz", "SKILLS", "Python, SQL, Docker" }
RightCells == { "Jazz", "EXPERIENCE", "Worked on a dashboard for the team" }

\* the line of a two-column rendering: left + 5 blanks + right
TwoColumnRow(l, r) ==
    CASE l = "Jazz" /\ r = "Jazz" ->
             "Jazz     Jazz"
      [] l = "Jazz" /\ r = "EXPERIENCE" ->
             "Jazz     EXPERIENCE"
      [] l = "Jazz" /\ r = "Worked on a dashboard for the team" ->
             "Jazz     Worked on a dashboard for the team"
      [] l = "SKILLS" /\ r = "Jazz" ->
             "SKILLS     Jazz"
      [] l = "SKILLS" /\ r = "EXPERIENCE" ->
             "SKILLS     EXPERIENCE"
      [] l = "SKILLS" /\ r = "Worked on a dashboard for the team" ->
             "SKILLS     Worked on a dashboard for the team"
      [] l = "Python, SQL, Docker" /\ r = "Jazz" ->
             "Python, SQL, Docker     Jazz"
      [] l = "Python, SQL, Docker" /\ r = "EXPERIENCE" ->
             "Python, SQL, Docker     EXPERIENCE"
      [] l = "Python, SQL, Docker" /\ r = "Worked on a dashboard for the team" ->
             "Python, SQL, Docker     Worked on a dashboard for the team"

TwoColumnRows == { TwoColumnRow(l, r) : l \in LeftCells, r \in RightCells }

LineKinds ==
    ParseLines \cup AnalyzeLines \cup BulletLines \cup DerivedLines \cup DocHeaders
        \cup DocBodyLines \cup TwoColumnRows

\* len(line)
LineLen(l) ==
    CASE l = "" -> 0
      [] l = "SKILLS" -> 6
      [] l = "Skills" -> 6
      [] l = "Experience" -> 10
      [] l = "EXPERIENCE" -> 10
      [] l = "Jazz" -> 4
      [] l = "Python, SQL, Docker" -> 19
      [] l = "Worked on a dashboard for the team" -> 34
      [] l = "Improved dashboard load time by 40%" -> 35
      [] l = "Education: BSc" -> 14
      [] l = "Python     Docker" -> 17
      [] l = "Python" -> 6
      [] l = "Docker" -> 6
      [] l = "BSc" -> 3
      [] l = "Python Docker" -> 13
      [] l = "No resume text provided" -> 23
      [] l = "Education" -> 9
      [] l = "We need a Python and Kubernetes expert" -> 38
      [] l = "Sales assistant" -> 15
      [] l = "Data scientist with SQL and Docker" -> 34
      [] l = "No job description provided" -> 27
      [] l = "Helped the team with data entry tasks" -> 37
      [] l = "Handled customer requests by phone daily" -> 40
      [] l = "Participated in the weekly planning meetings" -> 44
      [] l = "Worked on a real-time dashboard for the team" -> 44
      [] l = "Worked on a real" -> 16
      [] l = "time dashboard for the team" -> 27
      [] l = "Jazz     Jazz" -> 13
      [] l = "Jazz     EXPERIENCE" -> 19
      [] l = "Jazz     Worked on a dashboard for the team" -> 43
      [] l = "SKILLS     Jazz" -> 15
      [] l = "SKILLS     EXPERIENCE" -> 21
      [] l = "SKILLS     Worked on a dashboard for the team" -> 45
      [] l = "Python, SQL, Docker     Jazz" -> 28
      [] l = "Python, SQL, Docker     EXPERIENCE" -> 34
      [] l = "Python, SQL, Docker     Worked on a dashboard for the team" -> 58

\* len(line.split())
LineWords(l) ==
    CASE l = "" -> 0
      [] l \in {"SKILLS", "Skills", "Experience", "EXPERIENCE", "Jazz",
                "Python", "Docker", "BSc", "Education"} -> 1
      [] l \in {"Education: BSc", "Python     Docker", "Python Docker"} -> 2
      [] l = "Python, SQL, Docker" -> 3
      [] l = "Sales assistant" -> 2
      [] l \in {"No resume text provided", "No job description provided"} -> 4
      [] l \in {"Improved dashboard load time by 40%",
                "Data scientist with SQL and Docker",
                "Handled customer requests by phone daily",
                "Participated in the weekly planning meetings"} -> 6
      [] l \in {"Worked on a dashboard for the team",
                "We need a Python and Kubernetes expert",
                "Helped the team with data entry tasks"} -> 7
      [] l = "Worked on a real-time dashboard for the team" -> 8
      [] l = "Worked on a real" -> 4
      [] l = "time dashboard for the team" -> 5
      [] l \in { "Jazz     Jazz",
                 "Jazz     EXPERIENCE",
                 "SKILLS     Jazz",
                 "SKILLS     EXPERIENCE" } -> 2
      [] l \in { "Python, SQL, Docker     Jazz",
                 "Python, SQL, Docker     EXPERIENCE" } -> 4
      [] l \in { "Jazz     Worked on a dashboard for the team",
                 "SKILLS     Worked on a dashboard for the team" } -> 8
      [] l \in { "Python, SQL, Docker     Worked on a dashboard for the team" } -> 10

RECURSIVE SumLen(_, _)
\* characters of lines 1..n of t, each followed by its "\n"
SumLen(t, n) == IF n = 0 THEN 0 ELSE SumLen(t, n - 1) + LineLen(t[n]) + 1

\* 0-based offset of the first character of line i (lines are 1-based)
Off(t, i) == SumLen(t, i - 1)

\* len(text)
TextLen(t) == SumLen(t, Len(t)) - 1

\* not text.strip()
IsBlankText(t) == \A i \in 1..Len(t) : t[i] = BLANK

\* the least k >= i with a non-blank line k, Len(t)+1 when there is none
NextNonBlank(t, i) ==
    IF \E k \in i..Len(t) : t[k] # BLANK
    THEN CHOOSE k \in i..Len(t) :
             t[k] # BLANK /\ \A j \in i..(k - 1) : t[j] = BLANK
    ELSE Len(t) + 1

RECURSIVE StripLeft(_)
StripLeft(s) ==
    IF s = <<>> THEN <<>>
    ELSE IF Head(s) = BLANK THEN StripLeft(Tail(s)) ELSE s

RECURSIVE StripRight(_)
StripRight(s) ==
    IF s = <<>> THEN <<>>
    ELSE IF s[Len(s)] = BLANK THEN StripRight(SubSeq(s, 1, Len(s) - 1)) ELSE s

\* str.strip() on lines without outer blanks: the blank lines at both ends go
StripLines(s) == StripRight(StripLeft(s))

\* a sequence of lines as a text: the empty string is the one empty line
AsText(s) == IF s = <<>> THEN <<BLANK>> ELSE s

\* all texts of 1..n lines over the line set L
TextsOver(L, n) == UNION { [1..k -> L] : k \in 1..n }

(***************************************************************************)
(* utils.py: the header dictionary and find_best_section                   *)
(***************************************************************************)
\* SECTION_HEADERS, in the dictionary's insertion order
SECTION_HEADERS ==
    << [name |-> "summary", variations |->
          << "summary", "professional summary", "career summary", "objective",
             "profile", "about me", "career objective", "professional profile",
             "executive summary", "introduction", "bio", "overview" >>],
       [name |-> "skills", variations |->
          << "skills", "technical skills", "skills & tools", "core competencies",
             "technologies", "expertise", "proficiencies",
             "technical proficiencies", "key skills", "skillset",
             "technical expertise", "tools", "programming skills",
             "languages", "frameworks", "technical competencies" >>],
       [name |-> "experience", variations |->
          << "experience", "work experience", "professional experience",
             "employment history", "work history", "career history",
             "employment", "professional background", "relevant experience",
             "internships", "internship experience" >>],
       [name |-> "projects", variations |->
          << "projects", "academic projects", "personal projects",
             "key projects", "portfolio", "project work", "major projects",
             "research projects", "capstone projects", "selected projects" >>],
       [name |-> "education", variations |->
          << "education", "academic background", "qualifications",
             "educational background", "academic qualifications", "degrees",
             "schooling", "academics" >>],
       [name |-> "certifications", variations |->
          << "certifications", "courses", "licenses", "training",
             "professional development", "certificates", "credentials",
             "licensed", "accreditations", "online courses" >>],
       [name |-> "achievements", variations |->
          << "achievements", "awards", "accomplishments", "honors",
             "recognition", "honors & awards", "distinctions", "accolades",
             "achievements & awards" >>],
       [name |-> "languages", variations |->
          << "languages", "language proficiency", "linguistic skills",
             "language skills", "spoken languages", "languages known" >>],
       [name |-> "publications", variations |->
          << "publications", "research papers", "papers", "published work",
             "research", "articles", "journal publications" >>],
       [name |-> "volunteering", variations |->
          << "volunteering", "volunteer work", "volunteer experience",
             "community service", "social work", "extracurricular activities",
             "activities" >>],
       [name |-> "interests", variations |->
          << "interests", "hobbies", "personal interests",
             "hobbies & interests", "extracurricular",
             "activities & interests" >> ],
       [name |-> "references", variations |->
          << "references", "referees", "professional references" >>] >>

\* SECTION_HEADERS.keys()
SectionNames == { SECTION_HEADERS[i].name : i \in 1..Len(SECTION_HEADERS) }

\* every variation listed in SECTION_HEADERS
Variations ==
    UNION { { SECTION_HEADERS[i].variations[j] :
                j \in 1..Len(SECTION_HEADERS[i].variations) } :
            i \in 1..Len(SECTION_HEADERS) }

\* header_text.lower().strip(), punctuation [:\-_|] to blanks, blanks collapsed
NormalizeHeader(h) ==
    CASE h = "" -> ""
      [] h \in Variations -> h
      [] h \in {"SKILLS", "Skills"} -> "skills"
      [] h \in {"Experience", "EXPERIENCE"} -> "experience"
      [] h = "Education" -> "education"
      [] h = "Jazz" -> "jazz"
      [] h = "Python, SQL, Docker" -> "python, sql, docker"
      [] h = "Worked on a dashboard for the team" ->
             "worked on a dashboard for the team"
      [] h = "Improved dashboard load time by 40%" ->
             "improved dashboard load time by 40%"
      [] h = "Education: BSc" -> "education bsc"
      [] h \in {"Python     Docker", "Python Docker"} -> "python docker"
      [] h = "Python" -> "python"
      [] h = "Docker" -> "docker"
      [] h = "BSc" -> "bsc"
      [] h = "No resume text provided" -> "no resume text provided"
      [] h = "Helped the team with data entry tasks" ->
             "helped the team with data entry tasks"
      [] h = "Handled customer requests by phone daily" ->
             "handled customer requests by phone daily"
      [] h = "Participated in the weekly planning meetings" ->
             "participated in the weekly planning meetings"
      [] h = "Worked on a real-time dashboard for the team" ->
             "worked on a real time dashboard for the team"
      [] h = "Jazz     Jazz" ->
             "jazz jazz"
      [] h = "Jazz     EXPERIENCE" ->
             "jazz experience"
      [] h = "Jazz     Worked on a dashboard for the team" ->
             "jazz worked on a dashboard for the team"
      [] h = "SKILLS     Jazz" ->
             "skills jazz"
      [] h = "SKILLS     EXPERIENCE" ->
             "skills experience"
      [] h = "SKILLS     Worked on a dashboard for the team" ->
             "skills worked on a dashboard for the team"
      [] h = "Python, SQL, Docker     Jazz" ->
             "python, sql, docker jazz"
      [] h = "Python, SQL, Docker     EXPERIENCE" ->
             "python, sql, docker experience"
      [] h = "Python, SQL, Docker     Worked on a dashboard for the team" ->
             "python, sql, docker worked on a dashboard for the team"

\* The loop's (best_match, best_score) over every variation for a header that
\* equals none of them: max(fuzz.ratio, fuzz.partial_ratio,
\* fuzz.token_sort_ratio), the first strict maximum in dictionary order, the
\* score rounded down.
FuzzyBest(n) ==
    CASE n = "" -> [match |-> NONE, score |-> 0]
      [] n = "jazz" -> [match |-> "summary", score |-> 40]
      [] n = "python, sql, docker" -> [match |-> "achievements", score |-> 66]
      [] n = "worked on a dashboard for the team" ->
             [match |-> "summary", score |-> 66]
      [] n = "improved dashboard load time by 40%" ->
             [match |-> "summary", score |-> 66]
      [] n = "education bsc" -> [match |-> "education", score |-> 100]
      [] n = "python docker" -> [match |-> "achievements", score |-> 66]
      [] n = "python" -> [match |-> "projects", score |-> 66]
      [] n = "docker" -> [match |-> "certifications", score |-> 66]
      [] n = "bsc" -> [match |-> "education", score |-> 80]
      [] n = "no resume text provided" -> [match |-> "summary", score |-> 71]
      [] n = "helped the team with data entry tasks" ->
             [match |-> "skills", score |-> 66]
      [] n = "handled customer requests by phone daily" ->
             [match |-> "references", score |-> 62]
      [] n = "participated in the weekly planning meetings" ->
             [match |-> "publications", score |-> 71]
      [] n = "worked on a real time dashboard for the team" ->
             [match |-> "summary", score |-> 66]
      [] n = "jazz jazz" ->
             [match |-> "publications", score |-> 35]
      [] n = "jazz experience" ->
             [match |-> "experience", score |-> 100]
      [] n = "jazz worked on a dashboard for the team" ->
             [match |-> "summary", score |-> 66]
      [] n = "skills jazz" ->
             [match |-> "skills", score |-> 100]
      [] n = "skills experience" ->
             [match |-> "skills", score |-> 100]
      [] n = "skills worked on a dashboard for the team" ->
             [match |-> "skills", score |-> 100]
      [] n = "python, sql, docker jazz" ->
             [match |-> "achievements", score |-> 66]
      [] n = "python, sql, docker experience" ->
             [match |-> "experience", score |-> 100]
      [] n = "python, sql, docker worked on a dashboard for the team" ->
             [match |-> "summary", score |-> 66]
      [] OTHER -> [match |-> NONE, score |-> 0]

\* the canonical names one of whose variations equals n, as indexes
ExactIndexes(n) ==
    { i \in 1..Len(SECTION_HEADERS) :
        \E j \in 1..Len(SECTION_HEADERS[i].variations) :
            SECTION_HEADERS[i].variations[j] = n }

\* Variant of find_best_section that hands the header text back as the key,
\* without mapping it to a canonical name.  Property C5 must tell it from the
\* program.
header_as_key(header_text) == header_text

MatchThreshold == 55

\* find_best_section(header_text): a canonical name or NONE
find_best_section(header_text) ==
    LET n == NormalizeHeader(header_text)
        ex == ExactIndexes(n)
    IN  IF ex # {}
        THEN SECTION_HEADERS[CHOOSE i \in ex : \A k \in ex : i <= k].name
        ELSE IF FuzzyBest(n).score >= MatchThreshold
             THEN FuzzyBest(n).match
             ELSE NONE

(***************************************************************************)
(* utils.py: two-column layout, clean_text                                 *)
(***************************************************************************)
\* re.search(r'\w+\s{5,}\w+', line)
TwoColumnLine(l) == l = "Python     Docker" \/ l \in TwoColumnRows

\* the non-empty stripped parts of re.split(r'\s{5,}', line)
SplitParts(l) ==
    CASE l = "" -> <<>>
      [] l = "Python     Docker" -> << "Python", "Docker" >>
      [] l \in TwoColumnRows ->
             CHOOSE p \in LeftCells \X RightCells : TwoColumnRow(p[1], p[2]) = l
      [] OTHER -> << l >>

ColumnThreshold == 3
ColumnScanLines == 50

\* detect_column_layout(text)
detect_column_layout(t) ==
    Cardinality({ i \in 1..Min(Len(t), ColumnScanLines) : TwoColumnLine(t[i]) })
        > ColumnThreshold

RECURSIVE SplitFrom(_, _)
SplitFrom(t, i) ==
    IF i > Len(t) THEN <<>> ELSE SplitParts(t[i]) \o SplitFrom(t, i + 1)

\* split_two_column_text(text)
split_two_column_text(t) == AsText(SplitFrom(t, 1))

\* re.sub(r' +', ' ', line)
CleanLine(l) ==
    CASE l = "Python     Docker" -> "Python Docker"
      [] l = "Jazz     Jazz" ->
             "Jazz Jazz"
      [] l = "Jazz     EXPERIENCE" ->
             "Jazz EXPERIENCE"
      [] l = "Jazz     Worked on a dashboard for the team" ->
             "Jazz Worked on a dashboard for the team"
      [] l = "SKILLS     Jazz" ->
             "SKILLS Jazz"
      [] l = "SKILLS     EXPERIENCE" ->
             "SKILLS EXPERIENCE"
      [] l = "SKILLS     Worked on a dashboard for the team" ->
             "SKILLS Worked on a dashboard for the team"
      [] l = "Python, SQL, Docker     Jazz" ->
             "Python, SQL, Docker Jazz"
      [] l = "Python, SQL, Docker     EXPERIENCE" ->
             "Python, SQL, Docker EXPERIENCE"
      [] l = "Python, SQL, Docker     Worked on a dashboard for the team" ->
             "Python, SQL, Docker Worked on a dashboard for the team"
      [] OTHER -> l

RECURSIVE CollapseBlank(_)
\* re.sub(r'\n\s*\n\s*\n+', '\n\n', t): two or more blank lines become one
CollapseBlank(s) ==
    IF Len(s) < 2 THEN s
    ELSE IF s[1] = BLANK /\ s[2] = BLANK THEN CollapseBlank(Tail(s))
         ELSE <<s[1]>> \o CollapseBlank(Tail(s))

\* clean_text(t), t a sequence of lines (possibly none)
clean_text(s) ==
    LET spaced == [i \in 1..Len(s) |-> CleanLine(s[i])]
    IN  AsText(StripLines(CollapseBlank(spaced)))

(***************************************************************************)
(* utils.py: parse_resume_sections, the candidate headers                  *)
(***************************************************************************)
\* re.fullmatch(r'[A-Z][A-Z ]{3,}', line): the ALL CAPS heading of the re.sub
AllCapsLine(l) == l \in {"SKILLS", "EXPERIENCE"}

\* line.title() of an ALL CAPS line
TitleCase(l) ==
    CASE l = "SKILLS" -> "Skills"
      [] l = "EXPERIENCE" -> "Experience"
      [] OTHER -> l

RECURSIVE TitleFrom(_, _, _)
\* The re.sub over "\n([A-Z][A-Z ]{3,})\n": a match takes the newline before and
\* the newline after its line, so the line after a converted line is left as is.
TitleFrom(t, i, avail) ==
    IF i > Len(t) THEN <<>>
    ELSE IF avail /\ i > 1 /\ i < Len(t) /\ AllCapsLine(t[i])
         THEN <<TitleCase(t[i])>> \o TitleFrom(t, i + 1, FALSE)
         ELSE <<t[i]>> \o TitleFrom(t, i + 1, TRUE)

title_case_headings(t) == TitleFrom(t, 1, TRUE)

\* the whole line is [A-Za-z][A-Za-z &/]{2,40}
HeaderLike(l) ==
    l \in { "SKILLS", "Skills", "Experience", "EXPERIENCE", "Jazz",
            "Worked on a dashboard for the team", "Python     Docker",
            "Python", "Docker", "BSc", "Python Docker",
            "No resume text provided", "Education",
            "Helped the team with data entry tasks",
            "Handled customer requests by phone daily",
            "Jazz     Jazz",
            "Jazz     EXPERIENCE",
            "SKILLS     Jazz",
            "SKILLS     EXPERIENCE" }

\* the whole line is [A-Z][A-Z ]{3,40}
AllCapsHeader(l) == l \in {"SKILLS", "EXPERIENCE"}

\* group(1).strip() of ([A-Za-z][A-Za-z &/]{2,40})\s*: at the start of the line
ColonHeader(l) == IF l = "Education: BSc" THEN "Education" ELSE NONE

\* characters of the line up to and including the colon
ColonEnd(l) == IF l = "Education: BSc" THEN 10 ELSE 0

\* what follows the colon on the line, stripped
ColonRest(l) == IF l = "Education: BSc" THEN "BSc" ELSE BLANK

\* whether pattern p (1 stand-alone line, 5 ALL CAPS line) takes the line
StandaloneHeader(p, l) == IF p = 1 THEN HeaderLike(l) ELSE AllCapsHeader(l)

\* a match: the header text, match.start(), match.end(); as lines: the first
\* line at or after start (sl), the line the body starts at (bl) and, for a
\* header with text after it on its line, that text (rest)
Match(text, start, end, sl, bl, partial, rest) ==
    [text |-> text, start |-> start, end |-> end, sl |-> sl, bl |-> bl,
     partial |-> partial, rest |-> rest]

RECURSIVE scan_standalone(_, _, _)
\* re.finditer of "\n\s*(header)\s*\n", searching from the newline before line
\* avail: the match runs from that newline over blank lines, the header line
\* and the blank lines after it, and ends after the last newline of that run
scan_standalone(p, t, avail) ==
    LET i == NextNonBlank(t, avail)
        k == NextNonBlank(t, i + 1)
    IN  IF i >= Len(t) THEN <<>>
        ELSE IF StandaloneHeader(p, t[i])
             THEN << Match(t[i], Off(t, avail) - 1, Off(t, Min(k, Len(t))),
                           avail, k, FALSE, BLANK) >>
                  \o scan_standalone(p, t, k + 1)
             ELSE scan_standalone(p, t, i + 1)

RECURSIVE scan_colon(_, _)
\* re.finditer of "\n\s*(header)\s*:"
scan_colon(t, avail) ==
    LET i == NextNonBlank(t, avail)
    IN  IF i > Len(t) THEN <<>>
        ELSE IF ColonHeader(t[i]) # NONE
             THEN << Match(ColonHeader(t[i]), Off(t, avail) - 1,
                           Off(t, i) + ColonEnd(t[i]), avail, i, TRUE,
                           ColonRest(t[i])) >>
                  \o scan_colon(t, i + 1)
             ELSE scan_colon(t, i + 1)

RECURSIVE scan_line_start(_, _)
\* re.finditer of "^(header)\s*:" with re.MULTILINE
scan_line_start(t, i) ==
    IF i > Len(t) THEN <<>>
    ELSE IF ColonHeader(t[i]) # NONE
         THEN << Match(ColonHeader(t[i]), Off(t, i),
                       Off(t, i) + ColonEnd(t[i]), i, i, TRUE,
                       ColonRest(t[i])) >>
              \o scan_line_start(t, i + 1)
         ELSE scan_line_start(t, i + 1)

\* the matches of heading_patterns[p]; the "|" and dash patterns (3 and 4)
\* match nothing over this vocabulary
pattern_matches(p, t) ==
    CASE p = 1 -> scan_standalone(1, t, 2)
      [] p = 2 -> scan_colon(t, 2)
      [] p = 5 -> scan_standalone(5, t, 2)
      [] p = 6 -> scan_line_start(t, 1)
      [] OTHER -> <<>>

MaxHeaderWords == 5

RECURSIVE FilterWords(_)
\* len(header_text.split()) <= 5
FilterWords(ms) ==
    IF ms = <<>> THEN <<>>
    ELSE IF LineWords(Head(ms).text) <= MaxHeaderWords
         THEN <<Head(ms)>> \o FilterWords(Tail(ms))
         ELSE FilterWords(Tail(ms))

NumPatterns == 6

RECURSIVE AllFrom(_, _)
AllFrom(p, t) ==
    IF p > NumPatterns THEN <<>>
    ELSE FilterWords(pattern_matches(p, t)) \o AllFrom(p + 1, t)

\* all_matches before sorting
all_matches(t) == AllFrom(1, t)

RECURSIVE InsertByStart(_, _)
\* insert m after every element whose start is <= m.start (a stable sort)
InsertByStart(s, m) ==
    IF s = <<>> THEN <<m>>
    ELSE IF Head(s).start <= m.start
         THEN <<Head(s)>> \o InsertByStart(Tail(s), m)
         ELSE <<m>> \o s

RECURSIVE SortByStart(_)
\* all_matches.sort(key=lambda x: x['start'])
SortByStart(ms) ==
    IF ms = <<>> THEN <<>>
    ELSE InsertByStart(SortByStart(SubSeq(ms, 1, Len(ms) - 1)), ms[Len(ms)])

MinHeaderGap == 5
InitialLastPos == -100

RECURSIVE Dedup(_, _)
\* unique_matches: a match is kept when it starts more than 5 after the last kept
Dedup(ms, last_pos) ==
    IF ms = <<>> THEN <<>>
    ELSE IF Head(ms).start - last_pos > MinHeaderGap
         THEN <<Head(ms)>> \o Dedup(Tail(ms), Head(ms).start)
         ELSE Dedup(Tail(ms), last_pos)

unique_matches(t) == Dedup(SortByStart(all_matches(t)), InitialLastPos)

(***************************************************************************)
(* utils.py: parse_resume_sections, the sections                           *)
(***************************************************************************)
NoError == "none"

\* Variant of InitSections that starts from the five scored sections only.
\* Property C4 must tell it from the program.
ScoredSectionsOnly ==
    [k \in {"summary", "skills", "experience", "projects", "education"} |->
       <<BLANK>>]

\* {k: "" for k in SECTION_HEADERS.keys()}
InitSections == [k \in SectionNames |-> <<BLANK>>]

\* not s, for a string s
IsEmptyStr(v) == v = <<BLANK>>

SummaryCap == 500

RECURSIVE WholeLinesWithin(_, _, _)
WholeLinesWithin(t, i, cap) ==
    IF i > Len(t) \/ Off(t, i) + LineLen(t[i]) > cap THEN <<>>
    ELSE <<t[i]>> \o WholeLinesWithin(t, i + 1, cap)

\* text[:500] if len(text) > 500 else text (a cut inside a line drops the line)
Prefix500(t) ==
    IF TextLen(t) > SummaryCap THEN AsText(WholeLinesWithin(t, 1, SummaryCap))
    ELSE t

\* text[start:end].strip() for the j-th unique match, as lines
match_body(t, u, j) ==
    LET m == u[j]
        end == IF j + 1 <= Len(u) THEN u[j + 1].start ELSE TextLen(t)
        sl == IF j + 1 <= Len(u) THEN u[j + 1].sl ELSE Len(t) + 1
        first == IF m.partial THEN <<m.rest>> ELSE <<>>
        from == IF m.partial THEN m.bl + 1 ELSE m.bl
        rest == IF from <= sl - 1 THEN SubSeq(t, from, sl - 1) ELSE <<>>
    IN  IF m.end >= end THEN <<>> ELSE StripLines(first \o rest)

\* Variant of append_body in which a later body replaces an earlier one.
\* Property C19 must tell it from the program.
overwrite_body(old, body) == clean_text(body)

\* sections[best] after the append of one body
append_body(old, body) ==
    IF IsEmptyStr(old) THEN clean_text(body)
    ELSE old \o <<BLANK>> \o clean_text(body)

RECURSIVE process_matches_reassign(_, _, _, _)
\* Variant of process_matches that puts the body under a header that matches
\* no section into the summary.  Property C18 must tell it from the program.
process_matches_reassign(t, u, j, acc) ==
    IF j > Len(u) \/ acc.raised # NoError THEN acc
    ELSE LET header_raw == u[j].text
             best == find_best_section(header_raw)
             key == IF best = NONE THEN "summary" ELSE best
         IN  IF header_raw = BLANK
             THEN process_matches_reassign(t, u, j + 1, acc)
             ELSE process_matches_reassign(t, u, j + 1,
                    [acc EXCEPT !.sections[key] =
                                   append_body(@, match_body(t, u, j))])

RECURSIVE process_matches(_, _, _, _)
\* the loop over unique_matches; acc is [raised, sections]
process_matches(t, u, j, acc) ==
    IF j > Len(u) \/ acc.raised # NoError THEN acc
    ELSE LET header_raw == u[j].text
             best == find_best_section(header_raw)
         IN  IF header_raw = BLANK \/ best = NONE
             THEN process_matches(t, u, j + 1, acc)
             ELSE IF best \notin DOMAIN acc.sections
                  THEN [acc EXCEPT !.raised = "KeyError"]
                  ELSE process_matches(t, u, j + 1,
                         [acc EXCEPT !.sections[best] =
                                        append_body(@, match_body(t, u, j))])

RECURSIVE blocks_from(_, _)
\* the non-empty stripped blocks of text.split('\n\n'): the runs of non-blank
\* lines
blocks_from(t, i) ==
    LET b == NextNonBlank(t, i)
        e == IF \E k \in b..Len(t) : t[k] = BLANK
             THEN (CHOOSE k \in b..Len(t) :
                      t[k] = BLANK /\ \A j \in b..(k - 1) : t[j] # BLANK) - 1
             ELSE Len(t)
    IN  IF b > Len(t) THEN <<>>
        ELSE <<SubSeq(t, b, e)>> \o blocks_from(t, e + 1)

MinBlockLen == 20

RECURSIVE fallback_blocks(_, _, _)
\* the loop of fallback_extraction over the blocks; acc is [raised, sections]
fallback_blocks(bs, i, acc) ==
    IF i > Len(bs) \/ acc.raised # NoError THEN acc
    ELSE LET block == bs[i]
             matched_section == find_best_section(block[1])
             key == IF matched_section # NONE THEN matched_section
                    ELSE "summary"
             content == IF matched_section # NONE THEN Tail(block) ELSE block
         IN  IF TextLen(block) < MinBlockLen
             THEN fallback_blocks(bs, i + 1, acc)
             ELSE IF key \notin DOMAIN acc.sections
                  THEN [acc EXCEPT !.raised = "KeyError"]
                  ELSE fallback_blocks(bs, i + 1,
                         [acc EXCEPT !.sections[key] = @ \o clean_text(content)])

\* fallback_extraction(text)
fallback_extraction(t) ==
    fallback_blocks(blocks_from(t, 1), 1,
                    [raised |-> NoError, sections |-> InitSections])

\* the text the headers are looked for in: two columns split, ALL CAPS
\* headings in title case
normalized_text(original_text) ==
    title_case_headings(IF detect_column_layout(original_text)
                        THEN split_two_column_text(original_text)
                        ELSE original_text)

\* which return statement parse_resume_sections leaves by
parse_path(original_text) ==
    LET t == normalized_text(original_text)
        u == unique_matches(t)
        looped == process_matches(t, u, 1,
                     [raised |-> NoError, sections |-> InitSections])
    IN  IF u = <<>> THEN "no_headers"
        ELSE IF looped.raised # NoError THEN "raised"
        ELSE IF \A k \in DOMAIN looped.sections :
                    IsEmptyStr(looped.sections[k])
             THEN "fallback"
             ELSE "matched"

\* parse_resume_sections(text): [raised, sections]
parse_resume_sections(original_text) ==
    LET t == normalized_text(original_text)
        u == unique_matches(t)
        looped == process_matches(t, u, 1,
                     [raised |-> NoError, sections |-> InitSections])
    IN  IF u = <<>>
        THEN IF "summary" \in DOMAIN InitSections
             THEN [raised |-> NoError,
                   sections |-> [InitSections EXCEPT !["summary"] = Prefix500(t)]]
             ELSE [raised |-> NoError,
                   sections |-> [k \in DOMAIN InitSections \cup {"summary"} |->
                                   IF k = "summary" THEN Prefix500(t)
                                   ELSE InitSections[k]]]
        ELSE IF looped.raised # NoError THEN looped
        ELSE IF \A k \in DOMAIN looped.sections :
                    IsEmptyStr(looped.sections[k])
             THEN fallback_extraction(original_text)
             ELSE looped

(***************************************************************************)
(* resume_analyzer.py: the pure functions                                  *)
(***************************************************************************)
JobDescriptions ==
    { "", "We need a Python and Kubernetes expert", "Sales assistant",
      "Data scientist with SQL and Docker" }

\* not s.strip(), for a one-line string
IsBlankStr(s) == s = ""

\* int(x) of the quotient a / b: Python truncates toward zero
TruncDiv(a, b) == IF a >= 0 THEN a \div b ELSE -((-a) \div b)

\* normalize_score(value), value an integer
normalize_score(value) == Max(0, Min(value, 100))

\* The terms of tech_keywords that occur in a line of the vocabulary or in a
\* job description, in ascending order (the order sorted() gives)
tech_keywords == << "docker", "kubernetes", "python", "r", "sql" >>

\* {keyword for keyword in tech_keywords if keyword in line.lower()}
KeywordsIn(l) ==
    CASE l \in {"Python, SQL, Docker"} -> {"docker", "python", "r", "sql"}
      [] l \in {"Python     Docker", "Python Docker"} ->
             {"docker", "python", "r"}
      [] l = "Python" -> {"python"}
      [] l = "Docker" -> {"docker", "r"}
      [] l \in {"Experience", "Worked on a dashboard for the team",
                "Improved dashboard load time by 40%",
                "No resume text provided", "No job description provided",
                "Helped the team with data entry tasks",
                "Handled customer requests by phone daily",
                "Participated in the weekly planning meetings",
                "Worked on a real-time dashboard for the team"} ->
             {"r"}
      [] l = "We need a Python and Kubernetes expert" ->
             {"kubernetes", "python", "r"}
      [] l = "Data scientist with SQL and Docker" -> {"docker", "r", "sql"}
      [] OTHER -> {}

\* extract_keywords(text), text a sequence of lines
extract_keywords(t) == UNION { KeywordsIn(t[i]) : i \in 1..Len(t) }

\* sorted(list(s)) for a set of keywords
SortedList(s) == SelectSeq(tech_keywords, LAMBDA k : k \in s)

Reverse(q) == [i \in 1..Len(q) |-> q[Len(q) + 1 - i]]

\* The interpreter's string hash seeds (PYTHONHASHSEED): list(s) of a set of
\* strings follows the hash order, which is fixed within one interpreter
\* process and differs between processes.
HashSeeds == {0, 1}

\* list(s) for a set of keywords in a process with the given hash seed
ListOfSet(s, seed) == IF seed = 0 THEN SortedList(s) ELSE Reverse(SortedList(s))

\* seq[:n]
Take(q, n) == SubSeq(q, 1, Min(n, Len(q)))

\* The embedding provider (SentenceTransformer.encode and sklearn's
\* cosine_similarity): what the comparison of two texts yields, a cosine in
\* hundredths or an exception.  A provider is a fixed function of the two texts.
CosineOutcomes ==
    << [ok |-> FALSE, cos |-> 0], [ok |-> TRUE, cos |-> -25],
       [ok |-> TRUE, cos |-> 0], [ok |-> TRUE, cos |-> 25],
       [ok |-> TRUE, cos |-> 100], [ok |-> TRUE, cos |-> 125] >>

provider_cosine(p, text_a, text_b) ==
    CosineOutcomes[((p + TextLen(text_a) + TextLen(text_b))
                      % Len(CosineOutcomes)) + 1]

NeutralSimilarity == 50

\* the body of compute_similarity for the outcome out of the provider, in
\* hundredths: [failed, sim]
similarity_of(out, text_a, text_b) ==
    IF IsBlankText(text_a) \/ IsBlankText(text_b)
    THEN [failed |-> FALSE, sim |-> 0]
    ELSE IF ~out.ok THEN [failed |-> TRUE, sim |-> NeutralSimilarity]
    ELSE [failed |-> FALSE, sim |-> Max(0, Min(100, out.cos))]

\* compute_similarity(model, text_a, text_b) in hundredths: [failed, sim]
compute_similarity(p, text_a, text_b) ==
    similarity_of(provider_cosine(p, text_a, text_b), text_a, text_b)

RECURSIVE SumWords(_, _)
SumWords(t, n) == IF n = 0 THEN 0 ELSE SumWords(t, n - 1) + LineWords(t[n])

\* len(text.split())
WordCount(t) == SumWords(t, Len(t))

\* any(re.search(pattern, line.lower()) for pattern in metrics_patterns)
SectionMetricsLine(l) == l = "Improved dashboard load time by 40%"

\* the strong_verbs found in line.lower()
StrongVerbsIn(l) ==
    CASE l = "Improved dashboard load time by 40%" -> {"improved"}
      [] l = "Handled customer requests by phone daily" -> {"led"}
      [] OTHER -> {}

\* any(phrase in line.lower() for phrase in weak_phrases)
WeakPhraseLine(l) ==
    l \in { "Worked on a dashboard for the team",
            "Worked on a real-time dashboard for the team" }

WeightedSections == << "summary", "skills", "experience", "projects", "education" >>

\* section_weights, in hundredths
section_weights(sec) ==
    CASE sec = "summary" -> 10
      [] sec = "skills" -> 25
      [] sec = "experience" -> 35
      [] sec = "projects" -> 20
      [] sec = "education" -> 10

\* step 1 of calculate_dynamic_section_score: the length check
length_check(section_type, word_count) ==
    CASE section_type = "summary" ->
           IF word_count >= 50 /\ word_count <= 150
           THEN [bonus |-> 20, suggestions |-> <<>>]
           ELSE IF word_count < 30
                THEN [bonus |-> 0, suggestions |->
                        <<"Summary too short (aim for 50-150 words)">>]
                ELSE [bonus |-> 0, suggestions |->
                        <<"Summary too long (keep it concise)">>]
      [] section_type = "skills" ->
           IF word_count >= 20 THEN [bonus |-> 25, suggestions |-> <<>>]
           ELSE [bonus |-> 0, suggestions |->
                   <<"Add more skills relevant to the job">>]
      [] section_type = "experience" ->
           IF word_count >= 100 THEN [bonus |-> 25, suggestions |-> <<>>]
           ELSE [bonus |-> 0, suggestions |->
                   <<"Expand experience descriptions with more details">>]
      [] section_type = "projects" ->
           IF word_count >= 80 THEN [bonus |-> 20, suggestions |-> <<>>]
           ELSE [bonus |-> 0, suggestions |->
                   <<"Add more project details and outcomes">>]
      [] section_type = "education" ->
           IF word_count >= 30 THEN [bonus |-> 15, suggestions |-> <<>>]
           ELSE [bonus |-> 0, suggestions |->
                   <<"Include GPA/CGPA and relevant coursework">>]
      [] OTHER -> [bonus |-> 0, suggestions |-> <<>>]

\* the body of calculate_dynamic_section_score(section_content, job_desc,
\* model, section_type) for the outcome out of the provider:
\* [score, sim_failed, details, suggestions]
section_score_for(out, content, jd, section_type) ==
    LET cs == similarity_of(out, content, <<jd>>)
        base_score == cs.sim
        word_count == WordCount(content)
        lc == length_check(section_type, word_count)
        has_metrics == \E i \in 1..Len(content) : SectionMetricsLine(content[i])
        proj == section_type \in {"experience", "projects"}
        verb_count ==
            Cardinality(UNION { StrongVerbsIn(content[i]) : i \in 1..Len(content) })
        section_keywords == extract_keywords(content)
        jd_keywords == KeywordsIn(jd)
        keyword_overlap == Cardinality(section_keywords \cap jd_keywords)
        kw_bonus == IF jd_keywords # {}
                    THEN (keyword_overlap * 30) \div Cardinality(jd_keywords)
                    ELSE 0
        has_weak_phrases == \E i \in 1..Len(content) : WeakPhraseLine(content[i])
        quality_score ==
            lc.bonus + (IF has_metrics THEN 15 ELSE 0)
            + (IF proj /\ verb_count >= 3 THEN 10 ELSE 0)
            + kw_bonus - (IF has_weak_phrases THEN 10 ELSE 0)
        suggestions ==
            lc.suggestions
            \o (IF ~has_metrics /\ proj
                THEN <<"Add quantifiable metrics (%, numbers, impact)">> ELSE <<>>)
            \o (IF proj /\ verb_count < 3
                THEN <<"Use more strong action verbs">> ELSE <<>>)
            \o (IF has_weak_phrases
                THEN <<"Replace weak phrases with strong action verbs">> ELSE <<>>)
        final_score ==
            normalize_score(TruncDiv(base_score * 6 + quality_score * 4, 10))
    IN  IF IsBlankText(content)
        THEN [score |-> 0, sim_failed |-> FALSE,
              details |-> [empty |-> TRUE, word_count |-> 0,
                           has_metrics |-> FALSE, quality_bonus |-> 0,
                           base_similarity |-> 0],
              suggestions |-> <<"Add content to this section">>]
        ELSE [score |-> final_score, sim_failed |-> cs.failed,
              details |-> [empty |-> FALSE, word_count |-> word_count,
                           has_metrics |-> has_metrics,
                           quality_bonus |-> quality_score,
                           base_similarity |-> cs.sim],
              suggestions |-> suggestions]

\* calculate_dynamic_section_score(section_content, job_desc, model,
\* section_type) with the provider p
calculate_dynamic_section_score(content, jd, p, section_type) ==
    section_score_for(provider_cosine(p, content, <<jd>>), content, jd,
                      section_type)

\* role_patterns.keys(), in the dictionary's insertion order
Roles ==
    << "Data Scientist", "AI/ML Engineer", "Software Engineer", "Data Analyst",
       "DevOps Engineer", "Web Developer", "Mobile Developer", "Data Engineer",
       "Product Manager", "UI/UX Designer" >>

\* role_patterns[role]
role_patterns(role) ==
    CASE role = "Data Scientist" ->
             { "data scien", "machine learning", "ml engineer",
               "statistical analysis", "predictive model", "data mining" }
      [] role = "AI/ML Engineer" ->
             { "ai engineer", "ml engineer", "deep learning", "neural network",
               "nlp", "computer vision", "artificial intelligence" }
      [] role = "Software Engineer" ->
             { "software engineer", "software developer", "backend", "frontend",
               "full stack", "application developer" }
      [] role = "Data Analyst" ->
             { "data analyst", "business analyst", "tableau", "power bi",
               "data visualization", "reporting" }
      [] role = "DevOps Engineer" ->
             { "devops", "site reliability", "ci/cd", "docker", "kubernetes",
               "infrastructure", "cloud engineer" }
      [] role = "Web Developer" ->
             { "web developer", "frontend developer", "react developer",
               "html", "css", "javascript developer" }
      [] role = "Mobile Developer" ->
             { "mobile developer", "android developer", "ios developer",
               "flutter", "react native" }
      [] role = "Data Engineer" ->
             { "data engineer", "etl", "data pipeline", "spark", "hadoop",
               "data warehouse" }
      [] role = "Product Manager" ->
             { "product manager", "product owner", "product management",
               "roadmap", "stakeholder" }
      [] role = "UI/UX Designer" ->
             { "ui designer", "ux designer", "user experience", "figma",
               "user interface", "wireframe" }

\* the keywords of role_patterns that are substrings of jd_lower
PhrasesIn(jd) ==
    CASE jd = "We need a Python and Kubernetes expert" -> { "kubernetes" }
      [] jd = "Data scientist with SQL and Docker" -> { "data scien", "docker" }
      [] jd \in { "", "Sales assistant", "No job description provided" } -> {}

\* sum(1 for keyword in role_patterns[role] if keyword in jd_lower), for a
\* job description in which the keywords of the set found occur
role_hits(found, role) == Cardinality(found \cap role_patterns(role))

\* Variant of role_loop with >= in place of >: the last of the roles with the
\* highest score wins.  Property C16 must tell it from the program.
RECURSIVE role_loop_last(_, _, _, _)
role_loop_last(found, i, best_role, max_hits) ==
    IF i > Len(Roles) THEN best_role
    ELSE IF role_hits(found, Roles[i]) >= max_hits
         THEN role_loop_last(found, i + 1, Roles[i], role_hits(found, Roles[i]))
         ELSE role_loop_last(found, i + 1, best_role, max_hits)

RECURSIVE role_loop(_, _, _, _)
role_loop(found, i, best_role, max_hits) ==
    IF i > Len(Roles) THEN best_role
    ELSE IF role_hits(found, Roles[i]) > max_hits
         THEN role_loop(found, i + 1, Roles[i], role_hits(found, Roles[i]))
         ELSE role_loop(found, i + 1, best_role, max_hits)

\* detect_role_from_jd(job_desc)
detect_role_from_jd(jd) == role_loop(PhrasesIn(jd), 1, "General", 0)

\* any(action in bullet.lower() for action in weak_actions)
WeakActionLine(l) ==
    l \in { "Worked on a dashboard for the team",
            "Helped the team with data entry tasks",
            "Handled customer requests by phone daily",
            "Participated in the weekly planning meetings",
            "Worked on a real-time dashboard for the team",
            "Worked on a real" }

\* re.search(r'\d+%|\d+x|\d+\+|\$\d+', bullet.lower())
BulletMetricsLine(l) == l = "Improved dashboard load time by 40%"

\* the stripped fragments of re.split(r'[\n•·\-\*]\s*', line)
BulletFragments(l) ==
    IF l = "Worked on a real-time dashboard for the team"
    THEN << "Worked on a real", "time dashboard for the team" >>
    ELSE << l >>

RECURSIVE FragmentsFrom(_, _)
FragmentsFrom(t, i) ==
    IF i > Len(t) THEN <<>>
    ELSE BulletFragments(t[i]) \o FragmentsFrom(t, i + 1)

MinBulletLen == 20
MaxBulletLen == 200

\* find_weak_bullets(resume_text)
find_weak_bullets(t) ==
    SelectSeq(FragmentsFrom(t, 1),
              LAMBDA b : LineLen(b) >= MinBulletLen /\ LineLen(b) <= MaxBulletLen
                          /\ WeakActionLine(b) /\ ~BulletMetricsLine(b))

DefaultWeakBullet == "Worked on a project without metrics"

\* re.findall(r'\d+', weak_bullet)
NumbersIn(l) == IF l = "Improved dashboard load time by 40%" THEN <<"40">> ELSE <<>>

\* role_verbs.get(detected_role, "Developed")
role_verb(role) ==
    CASE role = "Data Scientist" -> "Developed"
      [] role = "AI/ML Engineer" -> "Engineered"
      [] role = "Software Engineer" -> "Built"
      [] role = "Data Analyst" -> "Analyzed"
      [] role = "DevOps Engineer" -> "Automated"
      [] role = "Web Developer" -> "Designed"
      [] role = "Data Engineer" -> "Architected"
      [] OTHER -> "Developed"

\* generate_rewrite_suggestion(weak_bullet, detected_role, tech_stack): the
\* parts the f-string is built from
generate_rewrite_suggestion(weak_bullet, detected_role, tech_stack) ==
    LET numbers == NumbersIn(weak_bullet)
    IN  [verb |-> role_verb(detected_role),
         role |-> detected_role,
         tech |-> IF Len(tech_stack) >= 2 THEN Take(tech_stack, 2)
                  ELSE IF Len(tech_stack) >= 1 THEN <<tech_stack[1]>>
                  ELSE <<"modern tools">>,
         metric |-> IF numbers # <<>> THEN numbers[1] ELSE "25"]

\* re.search(r'\d+%|\d+x|\$\d+', line)
ResumeMetricsLine(l) == l = "Improved dashboard load time by 40%"

\* the keys of the dictionary parse_resume_sections builds, in insertion order
SectionOrder == [i \in 1..Len(SECTION_HEADERS) |-> SECTION_HEADERS[i].name]

\* sections.get(sec, "").strip()
section_content(sections, sec) ==
    IF sec \in DOMAIN sections THEN AsText(StripLines(sections[sec]))
    ELSE <<BLANK>>

\* one entry of the suggestions list: the fixed text and what is formatted in
Suggestion(text, arg, n, kws) ==
    [text |-> text, arg |-> arg, n |-> n, kws |-> kws]

PlainSuggestion(text) == Suggestion(text, "", 0, <<>>)

RECURSIVE weighted_sum(_, _)
\* weighted_total after the first n weighted sections, in hundredths
weighted_sum(scored, n) ==
    IF n = 0 THEN 0
    ELSE weighted_sum(scored, n - 1)
         + scored[WeightedSections[n]].score * section_weights(WeightedSections[n])

\* Variant of final_ats_score that adds the two scores instead of blending
\* and clamping them.  Property C2 must tell it from the program.
unweighted_sum(global_ats_score, weighted_total) ==
    global_ats_score + weighted_total \div 100

\* Variant of missing_keywords_of that lists the keywords in which resume and
\* job description differ at all.  Property C3 must tell it from the program.
differing_keywords(jd_keywords, resume_keywords) ==
    SortedList((jd_keywords \ resume_keywords)
               \cup (resume_keywords \ jd_keywords))

\* lines 392-393: the blend of the global and the weighted section score;
\* weighted_total arrives in hundredths
final_ats_score(global_ats_score, weighted_total) ==
    normalize_score(
        TruncDiv(global_ats_score * 3000 + weighted_total * 70, 10000))

\* lines 389 and 392 are evaluated in binary floating point: the tuples
\* << global_ats_score, summary, skills, experience, projects, education >>
\* of the scores drawn below for which int() of the computed blend is one
\* less than the integer part of the exact blend, tabulated from the
\* expressions of the source.  The analyses of the other specifications
\* meet no such tuple.
FloatShortfall ==
    { <<3, 0, 0, 0, 0, 30>>, <<3, 0, 0, 0, 15, 0>>, <<3, 0, 12, 0, 0, 0>>,
      <<3, 0, 12, 40, 15, 30>>, <<3, 0, 88, 0, 90, 30>>,
      <<3, 30, 0, 0, 0, 0>>, <<3, 30, 0, 40, 15, 30>>,
      <<3, 30, 12, 40, 0, 30>>, <<3, 30, 12, 40, 15, 0>>,
      <<3, 30, 88, 0, 90, 0>>, <<3, 86, 12, 0, 15, 84>>,
      <<3, 86, 88, 40, 0, 84>> }

\* the scores entering the blend, in the order of the table
BlendTuple(global_ats_score, scored) ==
    << global_ats_score >>
        \o [i \in 1..Len(WeightedSections) |-> scored[WeightedSections[i]].score]

\* lines 378-393: final_ats of the global score and the section scores; a
\* tuple of FloatShortfall has an exact blend between 1 and 100, so taking
\* the 1 off after the clamp is taking it off before
blended_ats(global_ats_score, scored) ==
    final_ats_score(global_ats_score,
                    weighted_sum(scored, Len(WeightedSections)))
    - (IF BlendTuple(global_ats_score, scored) \in FloatShortfall
       THEN 1 ELSE 0)

\* line 399: sorted(list(jd_keywords - resume_keywords))
missing_keywords_of(jd_keywords, resume_keywords) ==
    SortedList(jd_keywords \ resume_keywords)

\* line 400: sorted(list(resume_keywords - jd_keywords))
extra_keywords_of(jd_keywords, resume_keywords) ==
    SortedList(resume_keywords \ jd_keywords)

RECURSIVE section_suggestions(_, _)
\* lines 422-426: the first suggestion of every section scoring below 60
section_suggestions(scored, i) ==
    IF i > Len(WeightedSections) THEN <<>>
    ELSE LET sec == WeightedSections[i]
         IN  (IF scored[sec].score < 60 /\ scored[sec].suggestions # <<>>
              THEN << Suggestion(scored[sec].suggestions[1], sec, 0, <<>>) >>
              ELSE <<>>)
             \o section_suggestions(scored, i + 1)

\* Variant of append_suggestions that appends the checks on the whole resume
\* before the missing keywords and the sections' suggestions.  Property C24
\* must tell it from the program.
append_checks_first(keywords, sections, checks) ==
    checks \o keywords \o sections

\* lines 415-445: the order in which the suggestions are appended: the
\* missing keywords, the sections' suggestions, the checks on the whole
\* resume (metrics, action verbs, formatting, length)
append_suggestions(keywords, sections, checks) ==
    keywords \o sections \o checks

\* the statements of the try block of analyze_resume after get_model(),
\* for a segmentation that returned: the record of the return at line 448
\* and, as bookkeeping, the comparisons in which the provider raised
analyze_body(resume_in, jd_in, p, seed, sections) ==
    LET resume_text == IF IsBlankText(resume_in)
                       THEN <<"No resume text provided">> ELSE resume_in
        job_desc == IF IsBlankStr(jd_in)
                    THEN "No job description provided" ELSE jd_in
        gs == compute_similarity(p, resume_text, <<job_desc>>)
        global_ats_score == normalize_score(gs.sim)
        scored == [sec \in { WeightedSections[i] : i \in 1..Len(WeightedSections) } |->
                     calculate_dynamic_section_score(
                         section_content(sections, sec), job_desc, p, sec)]
        final_ats == blended_ats(global_ats_score, scored)
        resume_keywords == extract_keywords(resume_text)
        jd_keywords == KeywordsIn(job_desc)
        missing_keywords == missing_keywords_of(jd_keywords, resume_keywords)
        extra_keywords == extra_keywords_of(jd_keywords, resume_keywords)
        detected_role == detect_role_from_jd(job_desc)
        weak_bullets == find_weak_bullets(resume_text)
        weak_bullet == IF weak_bullets # <<>> THEN weak_bullets[1]
                       ELSE DefaultWeakBullet
        rewrite == generate_rewrite_suggestion(
                       weak_bullet, detected_role,
                       Take(ListOfSet(resume_keywords, seed), 3))
        word_count == WordCount(resume_text)
        suggestions ==
          append_suggestions(
            (IF Len(missing_keywords) > 0
             THEN << Suggestion("Add missing keywords", "",
                                Len(missing_keywords),
                                Take(missing_keywords, 5)) >>
             ELSE <<>>),
            section_suggestions(scored, 1),
            (IF ~\E i \in 1..Len(resume_text) : ResumeMetricsLine(resume_text[i])
                THEN << PlainSuggestion(
                  "Add quantifiable metrics (%, $, numbers) to demonstrate impact") >>
                ELSE <<>>)
            \o (IF Len(weak_bullets) > 3
                THEN << PlainSuggestion(
                  "Replace weak phrases with strong action verbs") >>
                ELSE <<>>)
            \o (IF final_ats < 70
                THEN << PlainSuggestion(
                  "Use standard section headers (Experience, Education, Skills)") >>
                ELSE <<>>)
            \o (IF word_count < 300
                THEN << PlainSuggestion(
                  "Resume is too short - aim for 400-600 words") >>
                ELSE IF word_count > 800
                THEN << PlainSuggestion(
                  "Resume is too long - keep it concise (1-2 pages)") >>
                ELSE <<>>))
    IN  [result |->
           [ats_score |-> final_ats,
            global_similarity |-> [percent |-> gs.sim, decimals |-> 2],
            section_scores |-> [sec \in DOMAIN scored |-> scored[sec].score],
            section_details |->
                [sec \in DOMAIN scored |->
                   [details |-> scored[sec].details,
                    suggestions |-> scored[sec].suggestions]],
            missing_keywords |-> Take(missing_keywords, 10),
            extra_keywords |-> Take(extra_keywords, 10),
            detected_role |-> detected_role,
            weak_bullet |-> weak_bullet,
            weak_bullets |-> Take(weak_bullets, 3),
            rewrite_suggestion |-> rewrite,
            suggestions |-> Take(suggestions, 8),
            tech_stack |-> Take(ListOfSet(resume_keywords, seed), 10),
            word_count |-> word_count,
            sections_found |->
                SelectSeq(SectionOrder,
                          LAMBDA k : k \in DOMAIN sections
                                     /\ ~IsBlankText(sections[k]))],
         global_failed |-> gs.failed,
         section_failed |-> { sec \in DOMAIN scored : scored[sec].sim_failed }]

\* the record of the return at line 469, e the exception's text
fallback_result(e) ==
    [ats_score |-> 50,
     global_similarity |-> [percent |-> 0, decimals |-> 0],
     section_scores |-> [sec \in {"skills", "experience", "projects",
                                  "education", "summary"} |->
                           CASE sec \in {"skills", "experience", "summary"} -> 40
                             [] OTHER -> 30],
     section_details |-> <<>>,
     missing_keywords |-> <<>>,
     extra_keywords |-> <<>>,
     detected_role |-> "General",
     weak_bullet |-> "",
     weak_bullets |-> <<>>,
     rewrite_suggestion |-> [verb |-> "", role |-> "", tech |-> <<>>, metric |-> ""],
     suggestions |-> << Suggestion("Error analyzing resume", e, 0, <<>>) >>,
     tech_stack |-> <<>>,
     word_count |-> 0,
     sections_found |-> <<>>]

(***************************************************************************)
(* State                                                                   *)
(***************************************************************************)
VARIABLES
    \* a call of utils.parse_resume_sections
    original_text,      \* the argument
    parse_pc,           \* "call", "returned" or "raised"
    parse_route,        \* the return statement taken
    parsed_sections     \* the dictionary returned

parse_vars == << original_text, parse_pc, parse_route, parsed_sections >>

\* no call of parse_resume_sections on its own is under way
ParseIdle ==
    /\ original_text = <<BLANK>>
    /\ parse_pc = "idle"
    /\ parse_route = NONE
    /\ parsed_sections = <<>>

\* a caller hands some text to parse_resume_sections
ParseInit ==
    /\ original_text \in TextsOver(ParseLines, MaxParseLines)
    /\ parse_pc = "call"
    /\ parse_route = NONE
    /\ parsed_sections = <<>>

\* a caller hands over a document of two headed blocks: an optional first
\* line, a header line and its body, a blank line, a header line and its body
DocTexts ==
    { prefix \o <<h1>> \o b1 \o <<BLANK>> \o <<h2>> \o b2 :
        prefix \in { <<>>, <<BLANK>>, <<"Python, SQL, Docker">> },
        h1 \in DocHeaders, h2 \in DocHeaders,
        b1 \in TextsOver(DocBodyLines, MaxBodyLines),
        b2 \in TextsOver(DocBodyLines, MaxBodyLines) }

DocInit ==
    /\ original_text \in DocTexts
    /\ parse_pc = "call"
    /\ parse_route = NONE
    /\ parsed_sections = <<>>

\* parse_resume_sections(original_text) runs to its return or to an exception
ParseCall ==
    /\ parse_pc = "call"
    /\ LET r == parse_resume_sections(original_text)
       IN  IF r.raised # NoError
           THEN /\ parse_pc' = "raised"
                /\ parsed_sections' = <<>>
           ELSE /\ parse_pc' = "returned"
                /\ parsed_sections' = r.sections
    /\ parse_route' = parse_path(original_text)
    /\ UNCHANGED original_text

VARIABLES
    \* one resume content segmented in two renderings
    layout_rows,            \* the content: per row, the left and the right cell
    layout_done,            \* the renderings segmented so far
    two_column_sections,    \* parse_resume_sections of the two-column rendering
    single_column_order,    \* how the single-column rendering orders the cells
    single_column_sections  \* parse_resume_sections of that rendering

layout_vars ==
    << layout_rows, layout_done, two_column_sections, single_column_order,
       single_column_sections >>

\* the rendering with both cells of a row on one line
TwoColumnText(rows) ==
    [i \in 1..Len(rows) |-> TwoColumnRow(rows[i][1], rows[i][2])]

\* the single-column rendering, every cell on a line of its own: row by row,
\* or the left column followed by the right column
SingleColumnText(rows, order) ==
    IF order = "rows"
    THEN [i \in 1..(2 * Len(rows)) |->
            IF i % 2 = 1 THEN rows[(i + 1) \div 2][1] ELSE rows[i \div 2][2]]
    ELSE [i \in 1..Len(rows) |-> rows[i][1]]
         \o [i \in 1..Len(rows) |-> rows[i][2]]

LayoutIdle ==
    /\ layout_rows = <<>>
    /\ layout_done = {}
    /\ two_column_sections = <<>>
    /\ single_column_order = NONE
    /\ single_column_sections = <<>>

LayoutInit ==
    /\ layout_rows \in [1..NumRows -> LeftCells \X RightCells]
    /\ layout_done = {}
    /\ two_column_sections = <<>>
    /\ single_column_order = NONE
    /\ single_column_sections = <<>>

\* parse_resume_sections(two-column rendering)
SegmentTwoColumn ==
    /\ layout_rows # <<>>
    /\ "two" \notin layout_done
    /\ layout_done' = layout_done \cup {"two"}
    /\ two_column_sections' =
          parse_resume_sections(TwoColumnText(layout_rows)).sections
    /\ UNCHANGED << layout_rows, single_column_order, single_column_sections >>

\* parse_resume_sections(single-column rendering)
SegmentSingleColumn ==
    /\ layout_rows # <<>>
    /\ "single" \notin layout_done
    /\ layout_done' = layout_done \cup {"single"}
    /\ \E order \in {"rows", "columns"} :
          /\ single_column_order' = order
          /\ single_column_sections' =
                parse_resume_sections(
                    SingleColumnText(layout_rows, order)).sections
    /\ UNCHANGED << layout_rows, two_column_sections >>

(***************************************************************************)
(* detect_role_from_jd on its own.  A job description is given by the      *)
(* keywords of role_patterns that occur in its lower-cased text.           *)
(***************************************************************************)
VARIABLES
    jd_phrases,     \* the keywords that occur in the job description
    role_pc,        \* "call" before the call, "done" after it
    role_scores,    \* the value of hits for each role of the loop
    best_role       \* the value returned

role_vars == << jd_phrases, role_pc, role_scores, best_role >>

\* the keywords job descriptions are put together from
JobPhrases ==
    { "mobile developer", "android developer", "ios developer", "flutter",
      "react native", "data scien", "machine learning", "ml engineer",
      "deep learning", "nlp", "frontend developer", "html", "frontend",
      "backend" }

\* a text in which "frontend developer" occurs is one in which "frontend" does
Realizable(found) == "frontend developer" \in found => "frontend" \in found

NoScores == [i \in 1..Len(Roles) |-> 0]

RoleIdle ==
    /\ jd_phrases = {}
    /\ role_pc = "idle"
    /\ role_scores = NoScores
    /\ best_role = NONE

RoleInit ==
    /\ jd_phrases \in { s \in SUBSET JobPhrases : Realizable(s) }
    /\ role_pc = "call"
    /\ role_scores = NoScores
    /\ best_role = NONE

\* detect_role_from_jd(job_desc), from entry to return
DetectRole ==
    /\ role_pc = "call"
    /\ role_pc' = "done"
    /\ role_scores' = [i \in 1..Len(Roles) |-> role_hits(jd_phrases, Roles[i])]
    /\ best_role' = role_loop(jd_phrases, 1, "General", 0)
    /\ UNCHANGED jd_phrases

(***************************************************************************)
(* calculate_dynamic_section_score on its own, for any answer of the       *)
(* provider                                                                *)
(***************************************************************************)
VARIABLES
    sec_content,    \* the argument section_content
    sec_job_desc,   \* the argument job_desc
    sec_type,       \* the argument section_type
    sec_cosine,     \* what the provider answers for the two texts
    sec_pc,         \* "call" before the call, "done" after it
    sec_result      \* the value returned

score_vars ==
    << sec_content, sec_job_desc, sec_type, sec_cosine, sec_pc, sec_result >>

\* the section bodies the function is called on
SectionLinesPool ==
    { "Python, SQL, Docker", "Worked on a dashboard for the team",
      "Improved dashboard load time by 40%" }

MaxSectionLines == 2

\* the answers of a provider: an exception, or a cosine in hundredths
ProviderAnswers ==
    { [ok |-> FALSE, cos |-> 0] }
        \cup { [ok |-> TRUE, cos |-> c] : c \in (100 - MaxCosine)..MaxCosine }

ScoreIdle ==
    /\ sec_content = <<BLANK>>
    /\ sec_job_desc = ""
    /\ sec_type = NONE
    /\ sec_cosine = [ok |-> FALSE, cos |-> 0]
    /\ sec_pc = "idle"
    /\ sec_result = <<>>

ScoreInit ==
    /\ sec_content \in TextsOver(SectionLinesPool, MaxSectionLines)
    /\ sec_job_desc \in JobDescriptions \cup {"No job description provided"}
    /\ sec_type \in { WeightedSections[i] : i \in 1..Len(WeightedSections) }
    /\ sec_cosine \in ProviderAnswers
    /\ sec_pc = "call"
    /\ sec_result = <<>>

\* calculate_dynamic_section_score(...), from entry to return
ScoreSection ==
    /\ sec_pc = "call"
    /\ sec_pc' = "done"
    /\ sec_result' = section_score_for(sec_cosine, sec_content, sec_job_desc,
                                       sec_type)
    /\ UNCHANGED << sec_content, sec_job_desc, sec_type, sec_cosine >>

(***************************************************************************)
(* find_best_section on its own, for the headers the dictionary lists      *)
(***************************************************************************)
VARIABLES
    hdr_text,       \* the argument header_text
    hdr_pc,         \* "call" before the call, "done" after it
    hdr_section     \* the value returned

header_vars == << hdr_text, hdr_pc, hdr_section >>

\* the headers the function is called on: every variation as it is listed,
\* and section names in other spellings
HeaderPool ==
    Variations \cup { "SKILLS", "Skills", "Experience", "EXPERIENCE", "Education" }

HeaderIdle ==
    /\ hdr_text = ""
    /\ hdr_pc = "idle"
    /\ hdr_section = NONE

HeaderInit ==
    /\ hdr_text \in HeaderPool
    /\ hdr_pc = "call"
    /\ hdr_section = NONE

\* find_best_section(header_text), from entry to return
FindSection ==
    /\ hdr_pc = "call"
    /\ hdr_pc' = "done"
    /\ hdr_section' = find_best_section(hdr_text)
    /\ UNCHANGED hdr_text

(***************************************************************************)
(* The blend of lines 378-393 on its own, for scores the five sections and *)
(* the global comparison can have                                          *)
(***************************************************************************)
VARIABLES
    bl_global,      \* global_ats_score
    bl_scored,      \* section -> what calculate_dynamic_section_score gave
    bl_pc,          \* "call" before the blend, "done" after it
    bl_result       \* final_ats

blend_vars == << bl_global, bl_scored, bl_pc, bl_result >>

\* the global scores drawn
BlendGlobals == { 0, 3, 25, 100 }

\* the scores drawn for a section; the last one is the section's largest,
\* 60% of a similarity of 100 plus 40% of its largest quality score
BlendScores(sec) ==
    CASE sec = "summary" -> { 0, 30, 86 }
      [] sec = "skills" -> { 0, 12, 88 }
      [] sec = "experience" -> { 0, 40, 92 }
      [] sec = "projects" -> { 0, 15, 90 }
      [] sec = "education" -> { 0, 30, 84 }

BlendIdle ==
    /\ bl_global = 0
    /\ bl_scored = <<>>
    /\ bl_pc = "idle"
    /\ bl_result = 0

BlendInit ==
    /\ bl_global \in BlendGlobals
    /\ \E a \in BlendScores("summary"), b \in BlendScores("skills"),
          c \in BlendScores("experience"), d \in BlendScores("projects"),
          e \in BlendScores("education") :
           bl_scored = [sec \in { WeightedSections[i] : i \in 1..Len(WeightedSections) } |->
                          [score |-> CASE sec = "summary" -> a
                                       [] sec = "skills" -> b
                                       [] sec = "experience" -> c
                                       [] sec = "projects" -> d
                                       [] sec = "education" -> e]]
    /\ bl_pc = "call"
    /\ bl_result = 0

\* lines 378-393 for section scores already computed
Blend ==
    /\ bl_pc = "call"
    /\ bl_pc' = "done"
    /\ bl_result' = blended_ats(bl_global, bl_scored)
    /\ UNCHANGED << bl_global, bl_scored >>

\* The places of the try block where an exception can be raised besides the
\* provider's encoding, which compute_similarity catches itself
FaultPoints ==
    { "get_model", "parse_resume_sections", "calculate_dynamic_section_score",
      "extract_keywords", "detect_role_from_jd", "find_weak_bullets",
      "generate_rewrite_suggestion", "suggestions" }

\* Variant of except_handler without the handler: the exception leaves
\* analyze_resume.  Property C1 must tell it from the program.
propagate_exception(e) ==
    [outcome |-> "raised", result |-> NONE, raised_in |-> e,
     global_failed |-> FALSE, section_failed |-> {}]

\* lines 465-490: the handler of the try block
except_handler(e) ==
    [outcome |-> "fallback", result |-> fallback_result(e), raised_in |-> e,
     global_failed |-> FALSE, section_failed |-> {}]

\* analyze_resume(resume_text, job_desc) with the provider p, the hash seed of
\* the process and the exception raised inside the try block, if any
analyze_resume(resume_in, jd_in, p, seed, fault) ==
    LET parsed == parse_resume_sections(
                      IF IsBlankText(resume_in)
                      THEN <<"No resume text provided">> ELSE resume_in)
        body == analyze_body(resume_in, jd_in, p, seed, parsed.sections)
    IN  IF fault # NoError THEN except_handler(fault)
        ELSE IF parsed.raised # NoError THEN except_handler(parsed.raised)
        ELSE [outcome |-> "normal", result |-> body.result,
              raised_in |-> NoError,
              global_failed |-> body.global_failed,
              section_failed |-> body.section_failed]

VARIABLES
    \* calls of resume_analyzer.analyze_resume in interpreter processes
    resume_text,        \* the first argument of the calls
    job_desc,           \* the second argument of the calls
    provider,           \* which embedding provider is installed
    hashseed,           \* the string hash seed of the running process
    cached_model,       \* _model: 0 for None, else the instance it holds
    returned            \* what each call so far returned, oldest first

analyze_vars ==
    << resume_text, job_desc, provider, hashseed, cached_model, returned >>

AnalyzeIdle ==
    /\ resume_text = <<BLANK>>
    /\ job_desc = ""
    /\ provider = 0
    /\ hashseed = 0
    /\ cached_model = 0
    /\ returned = <<>>

\* a process starts with _model = None; the caller's inputs stay the same
\* over the calls that follow
AnalyzeInit ==
    /\ resume_text \in TextsOver(AnalyzeLines, MaxLines)
    /\ job_desc \in JobDescriptions
    /\ provider \in 0..(NumProviders - 1)
    /\ hashseed \in HashSeeds
    /\ cached_model = 0
    /\ returned = <<>>

\* the same, for the inputs that are handed to analyze_resume repeatedly
RepeatInit ==
    /\ resume_text \in TextsOver(AnalyzeLines, MaxRepeatLines)
    /\ job_desc \in JobDescriptions
    /\ provider \in 0..(NumProviders - 1)
    /\ hashseed \in HashSeeds
    /\ cached_model = 0
    /\ returned = <<>>

\* the same, for resumes that are lists of bullets
BulletInit ==
    /\ resume_text \in TextsOver(BulletLines, MaxBullets)
    /\ job_desc \in {"Sales assistant", "We need a Python and Kubernetes expert"}
    /\ provider \in 0..(NumProviders - 1)
    /\ hashseed \in HashSeeds
    /\ cached_model = 0
    /\ returned = <<>>

\* one call of analyze_resume(resume_text, job_desc), from entry to return
AnalyzeCall ==
    /\ LET normal == analyze_resume(resume_text, job_desc, provider, hashseed,
                                    NoError)
       IN  \E fault \in FaultPoints \cup {NoError} :
             /\ fault = "get_model" => cached_model = 0
             /\ returned' = Append(returned,
                    IF fault = NoError THEN normal
                    ELSE analyze_resume(resume_text, job_desc, provider,
                                        hashseed, fault))
             /\ cached_model' = IF fault = "get_model" THEN 0
                                ELSE IF cached_model = 0 THEN 1
                                ELSE cached_model
    /\ UNCHANGED << resume_text, job_desc, provider, hashseed >>

\* the call of the caller
Analyze == returned = <<>> /\ AnalyzeCall

\* a call, or a further call with the same arguments
AnalyzeAgain == Len(returned) < MaxCalls /\ AnalyzeCall

\* the interpreter process ends and a new one starts: the module global is
\* None again and the hash seed is drawn anew
Restart ==
    /\ returned # <<>>
    /\ Len(returned) < MaxCalls
    /\ hashseed' \in HashSeeds
    /\ cached_model' = 0
    /\ UNCHANGED << resume_text, job_desc, provider, returned >>

(***************************************************************************)
(* resume_analyzer.get_model called from several threads of one process    *)
(***************************************************************************)
VARIABLES
    thread_pc,          \* where each thread stands in get_model
    thread_new,         \* the instance a thread built and has not yet stored
    thread_got,         \* the instances get_model returned to each thread
    constructed         \* SentenceTransformer objects built in the process

model_vars == << thread_pc, thread_new, thread_got, constructed >>

Threads == 1..NumThreads

ModelIdle ==
    /\ thread_pc = [t \in Threads |-> "idle"]
    /\ thread_new = [t \in Threads |-> 0]
    /\ thread_got = [t \in Threads |-> <<>>]
    /\ constructed = 0

\* a thread enters get_model
GetModelCall(t) ==
    /\ thread_pc[t] = "idle"
    /\ Len(thread_got[t]) < MaxGetModelCalls
    /\ thread_pc' = [thread_pc EXCEPT ![t] = "check"]
    /\ UNCHANGED << cached_model, thread_new, thread_got, constructed >>

\* line 16: if _model is None
GetModelCheck(t) ==
    /\ thread_pc[t] = "check"
    /\ thread_pc' = [thread_pc EXCEPT
                       ![t] = IF cached_model = 0 THEN "construct" ELSE "return"]
    /\ UNCHANGED << cached_model, thread_new, thread_got, constructed >>

\* lines 17-21, right-hand side: SentenceTransformer(...) builds an instance
GetModelConstruct(t) ==
    /\ thread_pc[t] = "construct"
    /\ constructed' = constructed + 1
    /\ thread_new' = [thread_new EXCEPT ![t] = constructed + 1]
    /\ thread_pc' = [thread_pc EXCEPT ![t] = "assign"]
    /\ UNCHANGED << cached_model, thread_got >>

\* line 17, the store: _model = <the instance built>
GetModelAssign(t) ==
    /\ thread_pc[t] = "assign"
    /\ cached_model' = thread_new[t]
    /\ thread_new' = [thread_new EXCEPT ![t] = 0]
    /\ thread_pc' = [thread_pc EXCEPT ![t] = "return"]
    /\ UNCHANGED << thread_got, constructed >>

\* line 22: return _model
GetModelReturn(t) ==
    /\ thread_pc[t] = "return"
    /\ thread_got' = [thread_got EXCEPT ![t] = Append(@, cached_model)]
    /\ thread_pc' = [thread_pc EXCEPT ![t] = "idle"]
    /\ UNCHANGED << cached_model, thread_new, constructed >>

(***************************************************************************)
(* app.py: one browser session of the Streamlit script                     *)
(***************************************************************************)
\* The files a user can put into the uploader, told apart by what the
\* extraction at lines 224-234 and validate_resume_content make of them
Files == { "resume.pdf", "notes.pdf", "scan.pdf", "broken.pdf" }

FileKind(f) ==
    CASE f = "resume.pdf" -> "valid"      \* text that passes the validation
      [] f = "notes.pdf" -> "invalid"     \* text that fails the validation
      [] f = "scan.pdf" -> "empty"        \* no text, or ten characters at most
      [] f = "broken.pdf" -> "error"      \* the extraction raises

\* what the user can type into the job description box
JobDescBoxes == { "", "jd" }

\* what the user can type into the Payment ID box
PaymentIds == { "", "order_1", "pay_paid", "pay_failed", "pay_cheap", "pay_unknown" }

\* client.payment.fetch(payment_id) at the payment provider
payment_fetch(payment_id) ==
    CASE payment_id = "pay_paid" ->
             [found |-> TRUE, status |-> "captured", amount |-> 500]
      [] payment_id = "pay_failed" ->
             [found |-> TRUE, status |-> "failed", amount |-> 500]
      [] payment_id = "pay_cheap" ->
             [found |-> TRUE, status |-> "captured", amount |-> 100]
      [] OTHER -> [found |-> FALSE, status |-> "", amount |-> 0]

\* payment_id_input.startswith("pay_")
HasPayPrefix(payment_id) ==
    payment_id \in {"pay_paid", "pay_failed", "pay_cheap", "pay_unknown"}

FreeAnalysisLimit == 10

\* lines 52-54 and 165-177: the keys a fresh session gets; a key the script
\* has not set yet holds NONE
SessionDefaults(used) ==
    [used_payment_ids |-> used,
     reports_generated |-> 0,
     paid_users |-> 0,
     payment_confirmed |-> FALSE,
     awaiting_payment |-> FALSE,
     skip_validation |-> FALSE,
     analysis_count |-> 0,
     last_upload_hash |-> NONE,
     resume_text |-> NONE,
     last_result |-> NONE,
     payment_id |-> NONE]

\* what a script run has put on the page
EmptyPage ==
    [analyze_enabled |-> FALSE, continue_button |-> FALSE,
     pay_button |-> FALSE, payment_form |-> FALSE, start_over |-> FALSE,
     sidebar |-> FALSE, rendered |-> {}, debug_sections |-> FALSE,
     payment_error |-> ""]

\* what a script run has asked of the code outside the script: the texts
\* handed to analyze_resume and the Payment IDs handed to the payment
\* provider, in the order of the calls
NoCalls == [analyzed |-> <<>>, fetched |-> <<>>]

\* the values of the analysis result the preview at lines 318-350 renders
PreviewItems ==
    { "ats_score", "detected_role", "len(missing_keywords)",
      "len(sections_found)" }

\* the values of the analysis result the report at lines 486-735 renders
ReportItems ==
    { "ats_score", "detected_role", "word_count", "len(sections_found)",
      "len(tech_stack)", "suggestions", "section_scores", "section_details",
      "missing_keywords", "extra_keywords", "tech_stack", "weak_bullets",
      "rewrite_suggestion", "sections_found" }

\* The state of a script run: the session state, the local resume_text, the
\* page so far, the calls made so far, and whether the run goes on ("run"),
\* was ended by st.stop() ("stop") or by st.rerun() ("rerun")
StartRun(sess) ==
    [s |-> sess, text |-> "", page |-> EmptyPage, calls |-> NoCalls,
     halt |-> "run"]

\* lines 218-289: RESUME EXTRACTION
extract_phase(c, w, click) ==
    LET f == w.resume_file
        kind == FileKind(f)
        hashed == [c EXCEPT !.s.last_upload_hash = f]
        stored == [hashed EXCEPT !.s.resume_text =
                      IF kind = "empty" THEN "" ELSE f]
    IN  IF f = NONE THEN c
        ELSE IF c.s.last_upload_hash = f
        THEN [c EXCEPT !.text = IF c.s.resume_text = NONE THEN ""
                                ELSE c.s.resume_text]
        ELSE IF kind = "error" THEN [hashed EXCEPT !.halt = "stop"]
        ELSE IF kind = "empty" THEN [stored EXCEPT !.halt = "stop"]
        ELSE IF kind = "valid" THEN [stored EXCEPT !.text = f]
        ELSE IF click = "continue"
        THEN [stored EXCEPT !.s.skip_validation = TRUE, !.halt = "rerun"]
        ELSE IF ~c.s.skip_validation
        THEN [stored EXCEPT !.page.continue_button = TRUE, !.halt = "stop"]
        ELSE [stored EXCEPT !.page.continue_button = TRUE, !.text = f]

\* Variant of analyze_phase without the limit of free analyses.  Property
\* C29 must tell it from the program.
analyze_unlimited(c, w, click) ==
    LET enabled == c.text # "" /\ w.job_desc # ""
        shown == [c EXCEPT !.page.analyze_enabled = enabled]
    IN  IF c.halt # "run" THEN c
        ELSE IF ~(click = "analyze" /\ enabled) THEN shown
        ELSE [shown EXCEPT
                !.calls.analyzed = Append(@, c.text),
                !.s.last_result = c.text,
                !.s.resume_text = c.text,
                !.s.analysis_count = @ + 1,
                !.s.reports_generated = @ + 1,
                !.page.rendered = @ \cup PreviewItems]

\* lines 295-352: ANALYSIS BUTTON
analyze_phase(c, w, click) ==
    LET enabled == c.text # "" /\ w.job_desc # ""
        shown == [c EXCEPT !.page.analyze_enabled = enabled]
    IN  IF c.halt # "run" THEN c
        ELSE IF ~(click = "analyze" /\ enabled) THEN shown
        ELSE IF c.s.analysis_count >= FreeAnalysisLimit
                /\ ~c.s.payment_confirmed
        THEN [shown EXCEPT !.halt = "stop"]
        ELSE [shown EXCEPT
                !.calls.analyzed = Append(@, c.text),
                !.s.last_result = c.text,
                !.s.resume_text = c.text,
                !.s.analysis_count = @ + 1,
                !.s.reports_generated = @ + 1,
                !.page.rendered = @ \cup PreviewItems]

\* Variant of verify_payment that unlocks on any well-formed Payment ID
\* without asking the payment provider.  Property C10 must tell it from the
\* program.
unlock_unverified(c, payment_id) ==
    IF ~HasPayPrefix(payment_id) THEN c
    ELSE [c EXCEPT !.s.used_payment_ids = @ \cup {payment_id},
                   !.s.payment_confirmed = TRUE,
                   !.s.paid_users = @ + 1,
                   !.s.payment_id = payment_id,
                   !.s.awaiting_payment = FALSE,
                   !.halt = "rerun"]

\* Variant of verify_payment that does not look the Payment ID up in
\* used_payment_ids.  Property C28 must tell it from the program.
verify_used_again(c, payment_id) ==
    LET payment == payment_fetch(payment_id)
        fetched == [c EXCEPT !.calls.fetched = Append(@, payment_id)]
    IN  IF ~HasPayPrefix(payment_id)
        THEN [c EXCEPT !.page.payment_error = "Invalid Payment ID format"]
        ELSE IF ~payment.found
        THEN [fetched EXCEPT !.page.payment_error = "Invalid Payment ID"]
        ELSE IF payment.status = "captured" /\ payment.amount = 500
        THEN [fetched EXCEPT !.s.used_payment_ids = @ \cup {payment_id},
                             !.s.payment_confirmed = TRUE,
                             !.s.paid_users = @ + 1,
                             !.s.payment_id = payment_id,
                             !.s.awaiting_payment = FALSE,
                             !.halt = "rerun"]
        ELSE [fetched EXCEPT !.page.payment_error = "Payment not captured"]

\* lines 438-467: the Verify & Unlock button with a Payment ID typed in
verify_payment(c, payment_id) ==
    LET payment == payment_fetch(payment_id)
        fetched == [c EXCEPT !.calls.fetched = Append(@, payment_id)]
    IN  IF ~HasPayPrefix(payment_id)
        THEN [c EXCEPT !.page.payment_error = "Invalid Payment ID format"]
        ELSE IF payment_id \in c.s.used_payment_ids
        THEN [c EXCEPT !.page.payment_error =
                           "This Payment ID has already been used!"]
        ELSE IF ~payment.found
        THEN [fetched EXCEPT !.page.payment_error = "Invalid Payment ID"]
        ELSE IF payment.status = "captured" /\ payment.amount = 500
        THEN [fetched EXCEPT !.s.used_payment_ids = @ \cup {payment_id},
                             !.s.payment_confirmed = TRUE,
                             !.s.paid_users = @ + 1,
                             !.s.payment_id = payment_id,
                             !.s.awaiting_payment = FALSE,
                             !.halt = "rerun"]
        ELSE [fetched EXCEPT !.page.payment_error = "Payment not captured"]

\* lines 358-467: PAYMENT SECTION
payment_phase(c, w, click) ==
    LET offered == [c EXCEPT !.page.pay_button = TRUE]
        form == [offered EXCEPT !.page.payment_form = TRUE]
    IN  IF c.halt # "run" THEN c
        ELSE IF c.s.last_result = NONE \/ c.s.payment_confirmed THEN c
        ELSE IF click = "pay"
        THEN [offered EXCEPT !.s.awaiting_payment = TRUE, !.halt = "rerun"]
        ELSE IF ~c.s.awaiting_payment THEN offered
        ELSE IF click = "cancel"
        THEN [form EXCEPT !.s.awaiting_payment = FALSE, !.halt = "rerun"]
        ELSE IF click = "verify" /\ w.payment_id_input # ""
        THEN verify_payment(form, w.payment_id_input)
        ELSE form

\* lines 473-738: FULL REPORT.  The Start Over button of lines 474-481 shows
\* when payment_confirmed is set and last_result is not; no session gets
\* there, since last_result is deleted by Reset Stats alone, together with
\* payment_confirmed.
report_phase(c, w, click) ==
    IF c.halt # "run" THEN c
    ELSE IF ~c.s.payment_confirmed THEN c
    ELSE IF c.s.last_result = NONE
    THEN IF click = "start_over"
         THEN [c EXCEPT !.s.payment_confirmed = FALSE,
                        !.s.awaiting_payment = FALSE,
                        !.page.start_over = TRUE, !.halt = "rerun"]
         ELSE [c EXCEPT !.page.start_over = TRUE, !.halt = "stop"]
    ELSE [c EXCEPT !.page.rendered = @ \cup ReportItems]

\* lines 744-762: ADMIN DASHBOARD, for a user who ticked the box and typed
\* the admin password
admin_phase(c, w, click) ==
    IF c.halt # "run" THEN c
    ELSE IF w.admin /\ click = "reset"
    THEN [c EXCEPT !.s = SessionDefaults(c.s.used_payment_ids),
                   !.page.sidebar = TRUE, !.halt = "rerun"]
    ELSE [c EXCEPT !.page.sidebar = TRUE]

\* lines 768-788: DEBUG MODE
debug_phase(c, w, click) ==
    IF c.halt # "run" THEN c
    ELSE IF w.debug /\ w.resume_file # NONE /\ c.text # ""
    THEN [c EXCEPT !.page.debug_sections = TRUE]
    ELSE c

RECURSIVE script_run(_, _, _)
\* one execution of the script from top to bottom for a widget state w and
\* the button the user pressed; st.rerun() starts the script again at once,
\* with no button pressed, and its page replaces the one under construction;
\* the calls of the run that ended in st.rerun() come before the new run's
script_run(sess, w, click) ==
    LET c == debug_phase(
               admin_phase(
                 report_phase(
                   payment_phase(
                     analyze_phase(
                       extract_phase(StartRun(sess), w, click),
                       w, click),
                     w, click),
                   w, click),
                 w, click),
               w, click)
    IN  IF c.halt = "rerun"
        THEN LET again == script_run(c.s, w, "none")
             IN  [again EXCEPT
                    !.calls = [analyzed |-> c.calls.analyzed \o @.analyzed,
                               fetched |-> c.calls.fetched \o @.fetched]]
        ELSE [s |-> c.s, page |-> c.page, calls |-> c.calls]

VARIABLES
    session,            \* st.session_state of the browser session
    widgets,            \* what the input widgets hold between script runs
    page,               \* what the last script run left on the page
    calls               \* the calls the last interaction made

app_vars == << session, widgets, page, calls >>

NoWidgets ==
    [resume_file |-> NONE, job_desc |-> "", payment_id_input |-> "",
     admin |-> FALSE, debug |-> FALSE]

AppIdle ==
    /\ session = SessionDefaults({})
    /\ widgets = NoWidgets
    /\ page = EmptyPage
    /\ calls = NoCalls

\* the browser opens the app: the script runs once with empty widgets
AppInit ==
    /\ widgets = NoWidgets
    /\ session = script_run(SessionDefaults({}), NoWidgets, "none").s
    /\ page = script_run(SessionDefaults({}), NoWidgets, "none").page
    /\ calls = script_run(SessionDefaults({}), NoWidgets, "none").calls

\* the user changes widgets to w and presses the button click (or none):
\* the script runs and leaves a new session state and page
Interact(w, click) ==
    /\ widgets' = w
    /\ session' = script_run(session, w, click).s
    /\ page' = script_run(session, w, click).page
    /\ calls' = script_run(session, w, click).calls

UploadFile(f) ==
    /\ f # widgets.resume_file
    /\ Interact([widgets EXCEPT !.resume_file = f], "none")

TypeJobDesc(j) ==
    /\ j # widgets.job_desc
    /\ Interact([widgets EXCEPT !.job_desc = j], "none")

ClickAnalyze ==
    /\ page.analyze_enabled
    /\ session.analysis_count < MaxAnalyses
    /\ Interact(widgets, "analyze")

\* The click starts a script run in which last_upload_hash already equals
\* the file's hash, so the run takes the cached-text branch of line 287 and
\* never reaches the st.button call of line 260 that would see the click.
ClickContinueAnyway ==
    /\ page.continue_button
    /\ Interact(widgets, "continue")

ClickPay ==
    /\ page.pay_button
    /\ Interact(widgets, "pay")

SubmitPaymentId(payment_id) ==
    /\ page.payment_form
    /\ Interact([widgets EXCEPT !.payment_id_input = payment_id], "verify")

ClickCancel ==
    /\ page.payment_form
    /\ Interact(widgets, "cancel")

ToggleAdmin ==
    /\ page.sidebar
    /\ Interact([widgets EXCEPT !.admin = ~@], "none")

ClickResetStats ==
    /\ page.sidebar
    /\ widgets.admin
    /\ Interact(widgets, "reset")

ToggleDebug ==
    /\ page.sidebar
    /\ Interact([widgets EXCEPT !.debug = ~@], "none")

(***************************************************************************)
(* Specifications                                                          *)
(***************************************************************************)
vars == << parse_vars, layout_vars, role_vars, score_vars, blend_vars, header_vars, analyze_vars, model_vars, app_vars >>

\* utils.parse_resume_sections on its own
ParseNext == ParseCall /\ UNCHANGED << layout_vars, role_vars, score_vars, blend_vars, header_vars, analyze_vars, model_vars, app_vars >>

InitParse == ParseInit /\ LayoutIdle /\ RoleIdle /\ ScoreIdle /\ BlendIdle /\ HeaderIdle /\ AnalyzeIdle /\ ModelIdle /\ AppIdle

SpecParse == InitParse /\ [][ParseNext]_vars

\* utils.parse_resume_sections on documents of two headed blocks
InitDoc == DocInit /\ LayoutIdle /\ RoleIdle /\ ScoreIdle /\ BlendIdle /\ HeaderIdle /\ AnalyzeIdle /\ ModelIdle /\ AppIdle

SpecDoc == InitDoc /\ [][ParseNext]_vars

\* utils.parse_resume_sections on two renderings of one content
LayoutFrame == UNCHANGED << parse_vars, role_vars, score_vars, blend_vars, header_vars, analyze_vars, model_vars, app_vars >>

LayoutNext ==
    \/ SegmentTwoColumn /\ LayoutFrame
    \/ SegmentSingleColumn /\ LayoutFrame

InitLayout == ParseIdle /\ LayoutInit /\ RoleIdle /\ ScoreIdle /\ BlendIdle /\ HeaderIdle /\ AnalyzeIdle /\ ModelIdle /\ AppIdle

SpecLayout == InitLayout /\ [][LayoutNext]_vars

\* resume_analyzer.detect_role_from_jd on its own
RoleNext ==
    DetectRole /\ UNCHANGED << parse_vars, layout_vars, score_vars, blend_vars, header_vars, analyze_vars, model_vars, app_vars >>

InitRole == ParseIdle /\ LayoutIdle /\ RoleInit /\ ScoreIdle /\ BlendIdle /\ HeaderIdle /\ AnalyzeIdle /\ ModelIdle /\ AppIdle

SpecRole == InitRole /\ [][RoleNext]_vars

\* resume_analyzer.calculate_dynamic_section_score on its own
ScoreNext ==
    ScoreSection /\ UNCHANGED << parse_vars, layout_vars, role_vars, blend_vars, header_vars, analyze_vars, model_vars, app_vars >>

InitScore == ParseIdle /\ LayoutIdle /\ RoleIdle /\ ScoreInit /\ BlendIdle /\ HeaderIdle /\ AnalyzeIdle /\ ModelIdle /\ AppIdle

SpecScore == InitScore /\ [][ScoreNext]_vars

\* the blend of the scores, on its own
BlendNext ==
    Blend /\ UNCHANGED << parse_vars, layout_vars, role_vars, score_vars, header_vars, analyze_vars, model_vars, app_vars >>

InitBlend == ParseIdle /\ LayoutIdle /\ RoleIdle /\ ScoreIdle /\ BlendInit /\ HeaderIdle /\ AnalyzeIdle /\ ModelIdle /\ AppIdle

SpecBlend == InitBlend /\ [][BlendNext]_vars

\* utils.find_best_section on its own
HeaderNext ==
    FindSection /\ UNCHANGED << parse_vars, layout_vars, role_vars, score_vars, blend_vars, analyze_vars, model_vars, app_vars >>

InitHeader == ParseIdle /\ LayoutIdle /\ RoleIdle /\ ScoreIdle /\ BlendIdle /\ HeaderInit /\ AnalyzeIdle /\ ModelIdle /\ AppIdle

SpecHeader == InitHeader /\ [][HeaderNext]_vars

\* the first call of resume_analyzer.analyze_resume in a process
AnalyzeNext == Analyze /\ UNCHANGED << parse_vars, layout_vars, role_vars, score_vars, blend_vars, header_vars, model_vars, app_vars >>

InitAnalyze == ParseIdle /\ LayoutIdle /\ RoleIdle /\ ScoreIdle /\ BlendIdle /\ HeaderIdle /\ AnalyzeInit /\ ModelIdle /\ AppIdle

SpecAnalyze == InitAnalyze /\ [][AnalyzeNext]_vars

\* resume_analyzer.analyze_resume called repeatedly on one input, in one
\* process or in several
InitBullets == ParseIdle /\ LayoutIdle /\ RoleIdle /\ ScoreIdle /\ BlendIdle /\ HeaderIdle /\ BulletInit /\ ModelIdle /\ AppIdle

\* analyze_resume called once on a list of bullets
SpecBullets == InitBullets /\ [][AnalyzeNext]_vars

RepeatNext ==
    \/ AnalyzeAgain /\ UNCHANGED << parse_vars, layout_vars, role_vars, score_vars, blend_vars, header_vars, model_vars, app_vars >>
    \/ Restart /\ UNCHANGED << parse_vars, layout_vars, role_vars, score_vars, blend_vars, header_vars, model_vars, app_vars >>

InitRepeat == ParseIdle /\ LayoutIdle /\ RoleIdle /\ ScoreIdle /\ BlendIdle /\ HeaderIdle /\ RepeatInit /\ ModelIdle /\ AppIdle

SpecRepeat == InitRepeat /\ [][RepeatNext]_vars

\* the variables the threads of get_model leave alone
ModelFrame ==
    UNCHANGED << parse_vars, layout_vars, role_vars, score_vars, blend_vars, header_vars, app_vars, resume_text, job_desc, provider,
                 hashseed, returned >>

\* resume_analyzer.get_model called by the threads of one process
ModelNext ==
    \/ \E t \in Threads : GetModelCall(t) /\ ModelFrame
    \/ \E t \in Threads : GetModelCheck(t) /\ ModelFrame
    \/ \E t \in Threads : GetModelConstruct(t) /\ ModelFrame
    \/ \E t \in Threads : GetModelAssign(t) /\ ModelFrame
    \/ \E t \in Threads : GetModelReturn(t) /\ ModelFrame

InitModel == ParseIdle /\ LayoutIdle /\ RoleIdle /\ ScoreIdle /\ BlendIdle /\ HeaderIdle /\ AnalyzeIdle /\ ModelIdle /\ AppIdle

SpecModel == InitModel /\ [][ModelNext]_vars

\* the variables a browser session leaves alone
AppFrame == UNCHANGED << parse_vars, layout_vars, role_vars, score_vars, blend_vars, header_vars, analyze_vars, model_vars >>

\* one browser session of app.py
AppNext ==
    \/ \E f \in Files \cup {NONE} : UploadFile(f) /\ AppFrame
    \/ \E j \in JobDescBoxes : TypeJobDesc(j) /\ AppFrame
    \/ ClickAnalyze /\ AppFrame
    \/ ClickContinueAnyway /\ AppFrame
    \/ ClickPay /\ AppFrame
    \/ \E payment_id \in PaymentIds : SubmitPaymentId(payment_id) /\ AppFrame
    \/ ClickCancel /\ AppFrame
    \/ ToggleAdmin /\ AppFrame
    \/ ClickResetStats /\ AppFrame
    \/ ToggleDebug /\ AppFrame

InitApp == ParseIdle /\ LayoutIdle /\ RoleIdle /\ ScoreIdle /\ BlendIdle /\ HeaderIdle /\ AnalyzeIdle /\ ModelIdle /\ AppInit

SpecApp == InitApp /\ [][AppNext]_vars

(***************************************************************************)
(* Properties                                                              *)
(***************************************************************************)
\* the record is the one of the return at line 469
IsFallbackRecord(r) ==
    /\ r.ats_score = 50
    /\ r.missing_keywords = <<>>
    /\ r.extra_keywords = <<>>
    /\ r.detected_role = "General"
    /\ Len(r.suggestions) = 1
    /\ r.suggestions[1].text = "Error analyzing resume"

\* C1: analyze_resume never lets an exception out: every call returns a
\* record, and a call in which a step of the pipeline raised returns the
\* fixed fallback record (ats_score 50, empty keyword lists, role "General",
\* the single "Error analyzing resume" suggestion).
C1_NeverRaises ==
    \A i \in 1..Len(returned) :
        /\ returned[i].outcome # "raised"
        /\ returned[i].raised_in # NoError =>
               /\ returned[i].outcome = "fallback"
               /\ IsFallbackRecord(returned[i].result)

\* a call in which the weak-bullet step raised, for a resume that has a weak
\* bullet, has returned the fallback record
C1_Witness ==
    /\ Len(returned) = 1
    /\ returned[1].raised_in = "find_weak_bullets"
    /\ returned[1].outcome = "fallback"
    /\ IsFallbackRecord(returned[1].result)
    /\ find_weak_bullets(resume_text) # <<>>

\* C2: the ats_score of every returned record is an integer from 0 to 100,
\* on the normal and on the fallback path, whatever cosine the provider
\* returns.
C2_ScoreInRange ==
    \A i \in 1..Len(returned) :
        returned[i].outcome # "raised" =>
            returned[i].result.ats_score \in 0..100

\* a normal return for a resume whose cosine the provider puts above 1: the
\* similarity is clamped to 1 and the score lies inside the range
C2_Witness ==
    /\ Len(returned) = 1
    /\ returned[1].outcome = "normal"
    /\ provider_cosine(provider, resume_text, <<job_desc>>).ok
    /\ provider_cosine(provider, resume_text, <<job_desc>>).cos > 100
    /\ returned[1].result.global_similarity.percent = 100
    /\ returned[1].result.ats_score > 30

\* the elements of a sequence
Range(q) == { q[i] : i \in 1..Len(q) }

\* C3: missing_keywords and extra_keywords of a returned record share no
\* element.
C3_GapDisjoint ==
    \A i \in 1..Len(returned) :
        returned[i].outcome # "raised" =>
            Range(returned[i].result.missing_keywords)
              \cap Range(returned[i].result.extra_keywords) = {}

\* a normal return with keywords on both sides of the gap
C3_Witness ==
    \E i \in 1..Len(returned) :
        /\ returned[i].outcome = "normal"
        /\ returned[i].result.missing_keywords # <<>>
        /\ returned[i].result.extra_keywords # <<>>

\* C4: the dictionary parse_resume_sections returns has the 12 canonical
\* section names as its keys, no more and no fewer, whichever return
\* statement is taken (no headers, headers matched, fallback_extraction).
C4_AllKeys ==
    parse_pc = "returned" =>
        /\ parse_route \in {"no_headers", "matched", "fallback"}
        /\ DOMAIN parsed_sections = SectionNames
        /\ Cardinality(DOMAIN parsed_sections) = 12

\* a return through fallback_extraction that filled a section
C4_Witness ==
    /\ parse_pc = "returned"
    /\ parse_route = "fallback"
    /\ \E k \in DOMAIN parsed_sections : parsed_sections[k] # <<BLANK>>

\* C5: parse_resume_sections raises for no text.
C5_ParseNeverRaises == parse_pc # "raised"

\* a return with all values empty for a text that has a header line, a line
\* that looks like a header and matches no section, and nothing else
C5_Witness ==
    /\ parse_pc = "returned"
    /\ \A k \in DOMAIN parsed_sections : parsed_sections[k] = <<BLANK>>
    /\ \E i \in 1..Len(original_text) : original_text[i] = "Jazz"
    /\ \E i \in 1..Len(original_text) : original_text[i] = "SKILLS"

\* C6: two calls of analyze_resume on the same resume and job description,
\* with the same provider, that both return normally return the same record
\* in every field, tech_stack and the technologies of rewrite_suggestion
\* included.
C6_Deterministic ==
    \A i, j \in 1..Len(returned) :
        (returned[i].outcome = "normal" /\ returned[j].outcome = "normal")
            => returned[i].result = returned[j].result

\* two normal returns for one input that differ only in the order of
\* tech_stack and in the technologies the rewrite names
C6_Witness ==
    /\ Len(returned) = 2
    /\ returned[1].outcome = "normal"
    /\ returned[2].outcome = "normal"
    /\ returned[1].result.tech_stack # returned[2].result.tech_stack
    /\ returned[1].result.rewrite_suggestion.tech
         # returned[2].result.rewrite_suggestion.tech
    /\ returned[1].result.ats_score = returned[2].result.ats_score

\* C7: a failure of the embedding provider, while it is loaded by get_model
\* or while it encodes text in compute_similarity, leaves the call on the
\* normal path, with 0.5 as the similarity of the comparison that failed.
C7_ProviderFailureNeutral ==
    \A i \in 1..Len(returned) :
        /\ returned[i].raised_in = "get_model" =>
               returned[i].outcome = "normal"
        /\ returned[i].global_failed =>
               /\ returned[i].outcome = "normal"
               /\ returned[i].result.global_similarity.percent
                    = NeutralSimilarity

\* the provider failed while encoding for the global comparison: the call
\* went on with 0.5
C7_Witness ==
    \E i \in 1..Len(returned) :
        /\ returned[i].global_failed
        /\ returned[i].outcome = "normal"
        /\ returned[i].result.global_similarity.percent = NeutralSimilarity

\* the sub-algorithms of analyze_resume named by C8
SubAlgorithms ==
    { "calculate_dynamic_section_score", "extract_keywords",
      "detect_role_from_jd", "find_weak_bullets",
      "generate_rewrite_suggestion", "suggestions" }

\* C8: a call in which one sub-algorithm raised still returns on the normal
\* path, not with the full fallback record.
C8_FailureIsLocal ==
    \A i \in 1..Len(returned) :
        returned[i].raised_in \in SubAlgorithms =>
            returned[i].outcome = "normal"

\* role detection raised and the whole call fell back
C8_Witness ==
    \E i \in 1..Len(returned) :
        /\ returned[i].raised_in = "detect_role_from_jd"
        /\ returned[i].outcome = "fallback"
        /\ returned[i].result.section_details = <<>>

\* C9: under every interleaving of get_model calls, at most one model is
\* constructed and all callers receive the same instance.  (Every store to
\* _model stores a newly constructed model, so a second store shows as a
\* second construction.)
C9_SingleInstance ==
    /\ constructed <= 1
    /\ \A t, u \in Threads :
         \A i \in 1..Len(thread_got[t]) : \A j \in 1..Len(thread_got[u]) :
             thread_got[t][i] = thread_got[u][j]

\* two threads have each been handed a different instance
C9_Witness ==
    /\ constructed = 2
    /\ \E t, u \in Threads :
         /\ thread_got[t] # <<>> /\ thread_got[u] # <<>>
         /\ thread_got[t][1] # thread_got[u][1]

\* the session holds a Payment ID that the payment provider reports as
\* captured with the amount 500
PaymentVerified ==
    /\ session.payment_confirmed
    /\ session.payment_id \in session.used_payment_ids
    /\ payment_fetch(session.payment_id).found
    /\ payment_fetch(session.payment_id).status = "captured"
    /\ payment_fetch(session.payment_id).amount = 500

DocHasPrefix == original_text[1] \notin DocHeaders
DocHeader1 == IF DocHasPrefix THEN 2 ELSE 1
DocBlank ==
    CHOOSE i \in (DocHeader1 + 1)..Len(original_text) : original_text[i] = BLANK
DocHeader2 == DocBlank + 1
DocBody1 == (DocHeader1 + 1)..(DocBlank - 1)
DocBody2 == (DocHeader2 + 1)..Len(original_text)

\* the lines of a section of the returned dictionary
SectionLines(k) == Range(parsed_sections[k])

\* C11: in a text where a line SKILLS is followed by body lines, a blank line,
\* a line EXPERIENCE and further body lines, every body line between the two
\* headers is in the skills section and, unless it is also a line under
\* EXPERIENCE, not in the experience section; SKILLS may be the first line.
C11_BetweenHeaders ==
    ( /\ parse_pc = "returned"
      /\ original_text[DocHeader1] = "SKILLS"
      /\ original_text[DocHeader2] = "EXPERIENCE" )
    => \A i \in DocBody1 :
          /\ original_text[i] \in SectionLines("skills")
          /\ (original_text[i] \in SectionLines("experience")
                => \E j \in DocBody2 : original_text[j] = original_text[i])

\* SKILLS on the second line, one body line that cannot be taken for a header:
\* the body is in skills and the lines under EXPERIENCE are in experience
C11_Witness ==
    /\ parse_pc = "returned"
    /\ DocHasPrefix
    /\ original_text[DocHeader1] = "SKILLS"
    /\ original_text[DocHeader2] = "EXPERIENCE"
    /\ parsed_sections["skills"] = << "Python, SQL, Docker" >>
    /\ parsed_sections["experience"]
         = << "Worked on a dashboard for the team" >>

\* the non-empty sections of a returned dictionary, with their lines
NonEmptySections(secs) ==
    [k \in { n \in DOMAIN secs : ~IsEmptyStr(secs[n]) } |-> secs[k]]

\* C12: segmenting the two-column rendering of a content yields the same
\* non-empty sections, with the same lines in each, as segmenting its
\* single-column rendering.
C12_LayoutIndependent ==
    layout_done = {"two", "single"}
        => NonEmptySections(two_column_sections)
             = NonEmptySections(single_column_sections)

\* a content whose two renderings are segmented alike, into sections with
\* lines in them
C12_Witness ==
    /\ layout_done = {"two", "single"}
    /\ single_column_order = "rows"
    /\ NonEmptySections(two_column_sections)
         = NonEmptySections(single_column_sections)
    /\ ~IsEmptyStr(two_column_sections["experience"])

\* the dictionary terms that occur in the lowercased job description handed
\* to the call and not in the lowercased resume handed to it
TermsOnlyInJobDesc ==
    { k \in Range(tech_keywords) :
        /\ k \in KeywordsIn(job_desc)
        /\ \A i \in 1..Len(resume_text) : k \notin KeywordsIn(resume_text[i]) }

\* C13: a call that returns normally lists as missing_keywords the dictionary
\* terms that occur in the job description and not in the resume, in
\* ascending order, cut to the first 10.
C13_MissingKeywords ==
    \A i \in 1..Len(returned) :
        returned[i].outcome = "normal" =>
            returned[i].result.missing_keywords
                = Take(SortedList(TermsOnlyInJobDesc), 10)

\* the scenario of a resume naming Python, SQL and Docker against a job
\* description naming Python and Kubernetes
C13_Witness ==
    /\ Len(returned) = 1
    /\ returned[1].outcome = "normal"
    /\ \E i \in 1..Len(resume_text) : resume_text[i] = "Python, SQL, Docker"
    /\ job_desc = "We need a Python and Kubernetes expert"
    /\ returned[1].result.missing_keywords = << "kubernetes" >>
    /\ returned[1].result.missing_keywords
         = Take(SortedList(TermsOnlyInJobDesc), 10)

\* the segmenter yielded no content for any of the weighted sections
NoSectionContent(r) ==
    \A i \in 1..Len(WeightedSections) :
        \A j \in 1..Len(r.sections_found) :
            r.sections_found[j] # WeightedSections[i]

\* C14: when the segmenter yields no content for the weighted sections and
\* the global similarity is above 0, the section scores returned are not all
\* zeros: they are defaults taken from the global similarity score.
C14_DefaultsNotZeros ==
    \A i \in 1..Len(returned) :
        ( /\ returned[i].outcome = "normal"
          /\ NoSectionContent(returned[i].result)
          /\ returned[i].result.global_similarity.percent > 0 )
        => \E k \in 1..Len(WeightedSections) :
              returned[i].result.section_scores[WeightedSections[k]] > 0

\* a resume whose only header has nothing under it, compared with a job
\* description it is similar to
C14_Witness ==
    /\ Len(returned) = 1
    /\ returned[1].outcome = "normal"
    /\ resume_text = << BLANK, "Experience", BLANK >>
    /\ NoSectionContent(returned[1].result)
    /\ returned[1].result.global_similarity.percent = 100

\* the bullet is 20 to 200 characters long, holds a weak action and no metric
WeakBullet(l) ==
    /\ LineLen(l) >= MinBulletLen
    /\ LineLen(l) <= MaxBulletLen
    /\ WeakActionLine(l)
    /\ ~BulletMetricsLine(l)

\* C15: a call that returns normally lists in weak_bullets every bullet of
\* the resume that is 20 to 200 characters long, holds a weak action and no
\* metric, and lists no bullet that holds a metric, whatever the number of
\* weak bullets and whether or not a bullet holds a hyphen.
C15_WeakBullets ==
    \A i \in 1..Len(returned) :
        returned[i].outcome = "normal" =>
            \A k \in 1..Len(resume_text) :
                /\ WeakBullet(resume_text[k])
                     => resume_text[k] \in Range(returned[i].result.weak_bullets)
                /\ BulletMetricsLine(resume_text[k])
                     => resume_text[k] \notin Range(returned[i].result.weak_bullets)

\* the scenario of a weak bullet without a metric next to a bullet with one
C15_Witness ==
    /\ Len(returned) = 1
    /\ returned[1].outcome = "normal"
    /\ resume_text = << "Worked on a dashboard for the team",
                        "Improved dashboard load time by 40%" >>
    /\ returned[1].result.weak_bullets
         = << "Worked on a dashboard for the team" >>

\* C16: detect_role_from_jd returns "General" when no role scores above 0,
\* and otherwise the role with the highest score, the first of them in the
\* order of the dictionary when several share it; the value returned is a
\* role of the dictionary or "General".
C16_HighestScoreFirst ==
    role_pc = "done" =>
        /\ best_role \in Range(Roles) \cup {"General"}
        /\ (\A i \in 1..Len(Roles) : role_scores[i] = 0)
              => best_role = "General"
        /\ (\E i \in 1..Len(Roles) : role_scores[i] > 0)
              => \E i \in 1..Len(Roles) :
                    /\ best_role = Roles[i]
                    /\ \A j \in 1..Len(Roles) : role_scores[j] <= role_scores[i]
                    /\ \A j \in 1..(i - 1) : role_scores[j] < role_scores[i]

\* "ml engineer" is a keyword of two roles, which share the highest score
C16_Witness ==
    /\ role_pc = "done"
    /\ jd_phrases = { "ml engineer" }
    /\ role_scores[1] = 1
    /\ role_scores[2] = 1
    /\ best_role = "Data Scientist"

\* C17: the score of each role is 5 times the number of its primary phrases
\* found in the job description plus the number of its secondary phrases
\* found, for some division of the role's phrases into primary ones (at
\* least one) and secondary ones.
C17_WeightedScore ==
    role_pc = "done" =>
        \A i \in 1..Len(Roles) :
            \E primary \in SUBSET role_patterns(Roles[i]) :
                /\ primary # {}
                /\ role_scores[i]
                     = 5 * Cardinality(jd_phrases \cap primary)
                       + Cardinality(jd_phrases
                                       \cap (role_patterns(Roles[i]) \ primary))

\* a job description in which every phrase of one role occurs
C17_Witness ==
    /\ role_pc = "done"
    /\ jd_phrases = role_patterns("Mobile Developer")
    /\ role_scores[7] = 5
    /\ best_role = "Mobile Developer"

\* the candidate headers of the text of the call, in document order: the
\* header text, the section it is assigned to (NONE when it scores below the
\* threshold for every synonym) and the cleaned text under it
Candidates ==
    LET t == normalized_text(original_text)
        u == unique_matches(t)
    IN  [j \in 1..Len(u) |->
           LET n == NormalizeHeader(u[j].text)
               below == ExactIndexes(n) = {}
                          /\ FuzzyBest(n).score < MatchThreshold
           IN  [text |-> u[j].text,
                below |-> below,
                best |-> IF below THEN NONE ELSE find_best_section(u[j].text),
                body |-> clean_text(match_body(t, u, j))]]

\* the lines of a text that are not blank
LinesOf(b) == IF b = <<>> THEN {} ELSE Range(b) \ {BLANK}

\* the lines under the candidate headers of c that are assigned to section k
AssignedLines(c, k) ==
    UNION { LinesOf(c[j].body) : j \in { i \in 1..Len(c) : c[i].best = k } }

\* C18 as stated: the lines under a candidate header that scores below the
\* threshold are in no section of the dictionary returned, unless they are
\* also lines under a header that was assigned.
C18_UnmatchedDropped ==
    parse_pc = "returned" =>
        LET c == Candidates
        IN  \A j \in 1..Len(c) :
                c[j].below =>
                    \A k \in DOMAIN parsed_sections :
                        LinesOf(c[j].body) \cap SectionLines(k)
                            \subseteq AssignedLines(c, k)

\* C18 as the program has it: when the loop over the candidate headers has
\* put text into some section, every section holds the lines under the
\* candidate headers assigned to it (score at least 55) and nothing else, so
\* the lines under a candidate header below the threshold are in no section;
\* when the loop has left every section empty, the text is segmented anew by
\* fallback_extraction.
C18_DroppedUnlessFallback ==
    (parse_pc = "returned" /\ parse_route = "matched") =>
        LET c == Candidates
        IN  \A k \in DOMAIN parsed_sections :
                SectionLines(k) \ {BLANK} = AssignedLines(c, k)

\* a document whose second header is Jazz: the lines under it are dropped
C18_Witness ==
    /\ parse_pc = "returned"
    /\ parse_route = "matched"
    /\ original_text = << BLANK, "SKILLS", "Python, SQL, Docker", BLANK,
                          "Jazz", "Worked on a dashboard for the team" >>
    /\ \E j \in 1..Len(Candidates) :
          /\ Candidates[j].text = "Jazz"
          /\ Candidates[j].below
          /\ LinesOf(Candidates[j].body)
               = { "Worked on a dashboard for the team" }
    /\ \A k \in DOMAIN parsed_sections :
          "Worked on a dashboard for the team" \notin SectionLines(k)
    /\ SectionLines("skills") = { "Python, SQL, Docker" }

\* the candidate headers of c assigned to section k, in document order
AssignedTo(c, k) ==
    SelectSeq([i \in 1..Len(c) |-> i], LAMBDA i : c[i].best = k)

RECURSIVE JoinBodies(_, _, _)
\* the bodies of the candidates js[i], js[i+1], ... of c with one blank line
\* between each two of them
JoinBodies(c, js, i) ==
    IF i = Len(js) THEN c[js[i]].body
    ELSE c[js[i]].body \o <<BLANK>> \o JoinBodies(c, js, i + 1)

\* C19: when the loop over the candidate headers has put text into some
\* section, the value of every section is the concatenation, in document
\* order, of the bodies under the headers assigned to it, from the first body
\* that is not empty on, with exactly one blank line between each two of
\* them; nothing of an earlier body is lost.
C19_BodiesConcatenated ==
    (parse_pc = "returned" /\ parse_route = "matched") =>
        LET c == Candidates
        IN  \A k \in DOMAIN parsed_sections :
                LET js == AssignedTo(c, k)
                    filled == { i \in 1..Len(js) : ~IsEmptyStr(c[js[i]].body) }
                IN  IF filled = {} THEN IsEmptyStr(parsed_sections[k])
                    ELSE parsed_sections[k]
                           = JoinBodies(c, js, CHOOSE i \in filled :
                                                   \A n \in filled : i <= n)

\* a document with two SKILLS headers, each with a line under it
C19_Witness ==
    /\ parse_pc = "returned"
    /\ parse_route = "matched"
    /\ original_text = << BLANK, "SKILLS", "Python, SQL, Docker", BLANK,
                          "SKILLS", "Worked on a dashboard for the team" >>
    /\ Len(AssignedTo(Candidates, "skills")) = 2
    /\ parsed_sections["skills"]
         = << "Python, SQL, Docker", BLANK,
              "Worked on a dashboard for the team" >>

\* no candidate header of the text was assigned to a section
ZeroAccepted == \A j \in 1..Len(Candidates) : Candidates[j].below

\* the blank-line-delimited paragraphs of the text of the call
Paragraphs == blocks_from(original_text, 1)

\* C20: when no candidate header is assigned, every paragraph whose first
\* line matches a section has its remaining lines in that section, and every
\* other paragraph is in the summary section.
C20_ParagraphFallback ==
    (parse_pc = "returned" /\ ZeroAccepted) =>
        \A n \in 1..Len(Paragraphs) :
            LET b == Paragraphs[n]
                matched_section == find_best_section(b[1])
            IN  IF matched_section # NONE
                THEN IF Len(b) = 1 THEN TRUE
                     ELSE LinesOf(clean_text(Tail(b)))
                            \subseteq SectionLines(matched_section)
                ELSE LinesOf(clean_text(b)) \subseteq SectionLines("summary")

\* a text of two paragraphs, each under a header no section matches: both
\* paragraphs are in the summary
C20_Witness ==
    /\ parse_pc = "returned"
    /\ parse_route = "fallback"
    /\ original_text = << "Jazz", "Python, SQL, Docker", BLANK,
                          "Jazz", "Worked on a dashboard for the team" >>
    /\ ZeroAccepted
    /\ SectionLines("summary")
         = { BLANK, "Jazz", "Python, SQL, Docker",
             "Worked on a dashboard for the team" }

\* round(x / 10) for an integer x: a tenth is never a half
RoundTenths(x) == (x + 5) \div 10

\* C21: for a section body that is not empty, the score returned is
\* round(0.6 * base_similarity + 0.4 * quality_bonus) clamped to [0,100],
\* whatever the base similarity and whether or not the quality bonus is
\* negative.
C21_RoundedBlend ==
    (sec_pc = "done" /\ ~sec_result.details.empty) =>
        sec_result.score
            = Max(0, Min(100,
                  RoundTenths(6 * sec_result.details.base_similarity
                              + 4 * sec_result.details.quality_bonus)))

\* a body with a weak phrase and nothing to its credit: the quality bonus is
\* negative and the score is the rounded blend
C21_Witness ==
    /\ sec_pc = "done"
    /\ sec_content = << "Worked on a dashboard for the team" >>
    /\ sec_job_desc = "Sales assistant"
    /\ sec_type = "summary"
    /\ sec_result.details.quality_bonus = -10
    /\ sec_result.details.base_similarity = 25
    /\ sec_result.score = 11


\* the exact blend of the state, 0.3 * global + 0.7 * sum of weight * score,
\* in ten-thousandths
ExactBlend ==
    bl_global * 3000 + 70 * weighted_sum(bl_scored, Len(WeightedSections))

\* C22: ats_score is the blend of 30% of the global score and 70% of the
\* weighted sum of the five section scores, its fraction dropped; the
\* weights add up to 1, so neither the weighted sum nor the blend exceeds 100.
C22_BlendOfScores ==
    bl_pc = "done" =>
        /\ section_weights("summary") + section_weights("skills")
             + section_weights("experience") + section_weights("projects")
             + section_weights("education") = 100
        /\ weighted_sum(bl_scored, Len(WeightedSections)) <= 100 * 100
        /\ ExactBlend <= 100 * 10000
        /\ bl_result * 10000 <= ExactBlend
        /\ ExactBlend < (bl_result + 1) * 10000

\* a blend of exactly 3 (global score 3, summary 30, nothing else) returned
\* as 2
C22_Witness ==
    /\ bl_pc = "done"
    /\ bl_global = 3
    /\ BlendTuple(bl_global, bl_scored) = <<3, 30, 0, 0, 0, 0>>
    /\ ExactBlend = 3 * 10000
    /\ bl_result = 2


\* C23: the technologies named in the rewrite of a weak bullet found in the
\* resume are at most two dictionary terms that occur in that bullet; a term
\* that occurs only elsewhere in the resume is not inserted.
C23_TechFromWeakBullet ==
    \A i \in 1..Len(returned) :
        (returned[i].outcome = "normal"
           /\ returned[i].result.weak_bullets # <<>>) =>
            LET r == returned[i].result
                tech == r.rewrite_suggestion.tech
            IN  /\ Len(tech) <= 2
                /\ \A j \in 1..Len(tech) :
                       tech[j] \in KeywordsIn(r.weak_bullet) \cup {"modern tools"}

\* a resume listing Python, SQL and Docker under its skills and a weak bullet
\* that names none of them: the rewrite names Docker and Python
C23_Witness ==
    /\ Len(returned) = 1
    /\ returned[1].outcome = "normal"
    /\ resume_text = << "Python, SQL, Docker",
                        "Worked on a dashboard for the team" >>
    /\ hashseed = 0
    /\ returned[1].result.weak_bullet = "Worked on a dashboard for the team"
    /\ returned[1].result.rewrite_suggestion.tech = << "docker", "python" >>
    /\ "docker" \notin KeywordsIn(returned[1].result.weak_bullet)


\* the rank of a suggestion: 1 the missing keywords, 2 a section's own
\* suggestion, 3 a check on the whole resume
SuggestionRank(s) ==
    IF s.text = "Add missing keywords" THEN 1
    ELSE IF s.arg # "" THEN 2
    ELSE 3

\* C24: suggestions has at most 8 entries; when missing_keywords is not empty
\* its first entry is the missing-keyword suggestion; the sections' own
\* suggestions come after that one and the checks on the whole resume after
\* the sections' suggestions.
C24_PriorityOrder ==
    \A i \in 1..Len(returned) :
        returned[i].outcome = "normal" =>
            LET r == returned[i].result
                s == r.suggestions
            IN  /\ Len(s) <= 8
                /\ r.missing_keywords # <<>> =>
                       (s # <<>> /\ SuggestionRank(s[1]) = 1)
                /\ \A a, b \in 1..Len(s) :
                       a < b => /\ SuggestionRank(s[a]) <= SuggestionRank(s[b])
                                /\ SuggestionRank(s[b]) # 1

\* a call that returns all three kinds of suggestion
C24_Witness ==
    /\ Len(returned) = 1
    /\ returned[1].outcome = "normal"
    /\ returned[1].result.missing_keywords # <<>>
    /\ LET s == returned[1].result.suggestions
       IN  /\ Len(s) >= 3
           /\ SuggestionRank(s[1]) = 1
           /\ \E a \in 1..Len(s) : SuggestionRank(s[a]) = 2
           /\ SuggestionRank(s[Len(s)]) = 3


\* the entry line 438 appends when final_ats is below 70
ScoreNudge ==
    PlainSuggestion("Use standard section headers (Experience, Education, Skills)")

\* C25: a call that returns normally with an ats_score below 70 has the entry
\* appended for a low score in its suggestions, however many entries were
\* appended before it.
C25_NudgeBelow70 ==
    \A i \in 1..Len(returned) :
        (returned[i].outcome = "normal" /\ returned[i].result.ats_score < 70) =>
            \E j \in 1..Len(returned[i].result.suggestions) :
                returned[i].result.suggestions[j] = ScoreNudge

\* a low-scoring resume with few other suggestions: the entry is the last
\* but one, before the one on the length
C25_Witness ==
    /\ Len(returned) = 1
    /\ returned[1].outcome = "normal"
    /\ returned[1].result.ats_score < 70
    /\ resume_text = << "Improved dashboard load time by 40%" >>
    /\ LET s == returned[1].result.suggestions
       IN  /\ Len(s) >= 2 /\ Len(s) < 8
           /\ s[Len(s) - 1] = ScoreNudge


\* C26: analyze_resume is not called on a text that validate_resume_content
\* judged invalid unless skip_validation is true.
C26_InvalidNotAnalyzed ==
    \A i \in 1..Len(calls.analyzed) :
        FileKind(calls.analyzed[i]) = "invalid" => session.skip_validation

\* the run in which a file with invalid text is uploaded stops at the
\* warning, before the Analyze button
C26_Witness ==
    /\ widgets.resume_file = "notes.pdf"
    /\ widgets.job_desc # ""
    /\ session.last_upload_hash = "notes.pdf"
    /\ page.continue_button
    /\ ~page.analyze_enabled
    /\ calls.analyzed = <<>>

\* C27: the text handed to analyze_resume is the text extracted from the
\* file that is in the uploader, the one last_upload_hash is the hash of.
C27_TextOfCurrentFile ==
    \A i \in 1..Len(calls.analyzed) :
        /\ calls.analyzed[i] = widgets.resume_file
        /\ calls.analyzed[i] = session.last_upload_hash

\* a second file was uploaded and extracted, and its text is analyzed
C27_Witness ==
    /\ calls.analyzed = << "resume.pdf" >>
    /\ widgets.resume_file = "resume.pdf"
    /\ session.last_upload_hash = "resume.pdf"
    /\ session.analysis_count = 2

\* C28: a Payment ID that is in used_payment_ids is turned down when it is
\* submitted again, without a call of the payment provider and without a
\* change of the session; no step unlocks with a Payment ID that was used
\* already; used_payment_ids never loses a member, and Reset Stats keeps it
\* while every other key goes back to its default.
C28_PaymentIdUsedOnce ==
    [][ /\ session.used_payment_ids \subseteq session'.used_payment_ids
        /\ \A i \in 1..Len(calls'.fetched) :
               calls'.fetched[i] \notin session.used_payment_ids
        /\ session'.paid_users = session.paid_users + 1 =>
               session'.payment_id \notin session.used_payment_ids
        /\ \A id \in session.used_payment_ids :
               SubmitPaymentId(id) =>
                   /\ session' = session
                   /\ calls'.fetched = <<>>
                   /\ page'.payment_error = "This Payment ID has already been used!"
        /\ ClickResetStats =>
               /\ session'.used_payment_ids = session.used_payment_ids
               /\ session'.reports_generated = 0
               /\ session'.paid_users = 0
               /\ session'.analysis_count = 0
               /\ ~session'.payment_confirmed
               /\ ~session'.awaiting_payment
               /\ ~session'.skip_validation
               /\ session'.last_result = NONE
               /\ session'.payment_id = NONE
      ]_vars

\* after Reset Stats the Payment ID that unlocked the report before is
\* submitted again and turned down
C28_Witness ==
    /\ session.used_payment_ids = {"pay_paid"}
    /\ widgets.payment_id_input = "pay_paid"
    /\ ~session.payment_confirmed
    /\ session.paid_users = 0
    /\ page.payment_error = "This Payment ID has already been used!"
    /\ calls.fetched = <<>>

\* C29: a click on Analyze with analysis_count at 10 or more and
\* payment_confirmed false calls analyze_resume not at all and leaves
\* last_result, analysis_count and reports_generated as they are; any other
\* click on Analyze calls it once and adds 1 to analysis_count and to
\* reports_generated.
C29_FreeLimit ==
    [][ ClickAnalyze =>
          IF session.analysis_count >= 10 /\ ~session.payment_confirmed
          THEN /\ calls'.analyzed = <<>>
               /\ session'.last_result = session.last_result
               /\ session'.analysis_count = session.analysis_count
               /\ session'.reports_generated = session.reports_generated
          ELSE /\ Len(calls'.analyzed) = 1
               /\ session'.analysis_count = session.analysis_count + 1
               /\ session'.reports_generated = session.reports_generated + 1
      ]_vars

\* the eleventh click of a session that has not paid: the run stops at the
\* warning, before the payment section
C29_Witness ==
    /\ session.analysis_count = 10
    /\ ~session.payment_confirmed
    /\ session.last_result # NONE
    /\ page.analyze_enabled
    /\ ~page.pay_button
    /\ calls.analyzed = <<>>


\* C30: find_best_section of a header that equals a variation listed for a
\* canonical section returns that section; in particular the section's own
\* name leads to the section.
C30_SynonymReachesSection ==
    hdr_pc = "done" =>
        \A i \in 1..Len(SECTION_HEADERS) :
            (\E j \in 1..Len(SECTION_HEADERS[i].variations) :
                 SECTION_HEADERS[i].variations[j] = hdr_text)
                => hdr_section = SECTION_HEADERS[i].name

\* a variation of the languages section that leads to it
C30_Witness ==
    /\ hdr_pc = "done"
    /\ hdr_text = "language proficiency"
    /\ hdr_section = "languages"

====
